SPECIFICATION Spec
CONSTANTS
  Bridges = {b1}
  Commands = {c1}
  HttpClients = {c1}
  Clients <- MCClients
  SourceOf <- MCSourceOf
  Messages = {"initialize", "list", "call"}
  RequestsPerMinute = 1
  DiscoveryFactor = 2
  Minute = 2
  MaxSessions = 2
  MaxRecent = 3
  MaxLives = 2
INVARIANTS
  BurstIsBounded
  SessionsAreOwn
  BridgeEndsForCause
PROPERTIES
  RefusedOnlyIfBusy
  BridgeNeverHangs
CHECK_DEADLOCK FALSE
