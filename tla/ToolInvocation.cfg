CONSTANTS
  i1 = i1
  k1 = k1
  k2 = k2
  k3 = k3
  r1 = r1
  r2 = r2
  Instances <- MCInstances
  Calls <- MCCalls
  Requests <- MCRequests
  TargetOf <- MCTargetOf
  IdOf <- MCIdOf
  Absent = Absent
  Vacant = Vacant
SPECIFICATION FairSpec
CHECK_DEADLOCK FALSE
INVARIANTS AnswerIsOwn NoLostWakeup StartedOnce CancelHitsItsCall EntriesAccountedFor
PROPERTIES KeepsContract EveryCallReturns
