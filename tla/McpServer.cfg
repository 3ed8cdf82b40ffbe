CONSTANTS
  Clients = {c1}
  Sessions = {s1}
  Tools = {w}
  UiThreads = {u1}
  MaxFrames = 3
  Mcp = Mcp
  Free = Free
  NoClient = NoClient
  ListSessions = ListSessions
SPECIFICATION FairSpec
INVARIANTS NoCircularWait PolicyIsCurrent PolicyAgrees ListedHadGrace
PROPERTIES EveryRequestEnds
