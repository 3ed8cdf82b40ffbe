CONSTANTS
  Clients = {c1}
  Sessions = {s1}
  Tools = {w}
  UiThreads = {u1, u2}
  MaxFrames = 0
  Mcp = Mcp
  Free = Free
  NoClient = NoClient
  ListSessions = ListSessions
SPECIFICATION Spec
INVARIANTS RestartAppliesPolicy
