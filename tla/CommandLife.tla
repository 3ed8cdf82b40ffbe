---------------------------- MODULE CommandLife ----------------------------
(***************************************************************************)
(* What the command router and the UI state promise of the commands of     *)
(* each document, without queues, indices or passes.  A command is in      *)
(* flight from the moment it is made until it ends, once, and is shown as  *)
(* a task for that time; whoever speaks of a request speaks of the oldest  *)
(* command in flight under its id; commands that are overdue end together, *)
(* whatever documents they are for, and no other ends with them; the       *)
(* commands of a document are numbered from the last time it was idle.     *)
(* CommandRouter implements this.                                          *)
(***************************************************************************)
EXTENDS Integers, Sequences

CONSTANTS Sessions, Requests

VARIABLES
  command,   \* of each command made, in that order: session, request, sequence
  inFlight,  \* the commands that are neither over nor given up
  givenUp,   \* the commands whose response was not accepted: they never end
  overdue,   \* the commands up to this one are past their deadline
  sinceIdle  \* of each session: commands made since none was in flight

lifeVars == <<command, inFlight, givenUp, overdue, sinceIdle>>

LifeInit ==
  /\ command = <<>>
  /\ inFlight = {}
  /\ givenUp = {}
  /\ overdue = 0
  /\ sinceIdle = [s \in Sessions |-> 0]

Make(s, r) ==
  /\ command' = Append(command, [session |-> s, request |-> r, sequence |-> sinceIdle[s]])
  /\ inFlight' = inFlight \cup {Len(command) + 1}
  /\ sinceIdle' = [sinceIdle EXCEPT ![s] = @ + 1]
  /\ UNCHANGED <<givenUp, overdue>>

\* Of the commands in flight, the oldest of its session and request id.
IsNext(k) ==
  /\ k \in inFlight
  /\ \A j \in inFlight :
       /\ command[j].session = command[k].session
       /\ command[j].request = command[k].request
       => k <= j

\* These commands leave; a session with no other is idle.
Leave(gone) ==
  /\ inFlight' = inFlight \ gone
  /\ sinceIdle' =
       [s \in Sessions |->
          IF \E k \in inFlight \ gone : command[k].session = s THEN sinceIdle[s] ELSE 0]
  /\ UNCHANGED command

\* Answered, failed or cancelled.
End(k) == IsNext(k) /\ Leave({k}) /\ UNCHANGED <<givenUp, overdue>>

GiveUp(k) ==
  /\ IsNext(k)
  /\ Leave({k})
  /\ givenUp' = givenUp \cup {k}
  /\ UNCHANGED overdue

PassDeadline ==
  /\ overdue < Len(command)
  /\ overdue' = overdue + 1
  /\ UNCHANGED <<command, inFlight, givenUp, sinceIdle>>

\* All at once: nobody finds one of them gone and another still there.
Expire ==
  /\ Leave({k \in inFlight : k <= overdue})
  /\ UNCHANGED <<givenUp, overdue>>

LifeNext ==
  \/ \E s \in Sessions, r \in Requests : Make(s, r)
  \/ \E k \in inFlight : End(k) \/ GiveUp(k)
  \/ PassDeadline
  \/ Expire

LifeSpec == LifeInit /\ [][LifeNext]_lifeVars
=============================================================================
