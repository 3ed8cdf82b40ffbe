CONSTANTS
  i1 = i1
  i2 = i2
  s1 = s1
  s2 = s2
  Instances <- OnePane
  Sessions <- OneSession
  SessionOf <- OneSessionOf
  Conns = {c1, c2}
  MaxWire = 3
  MaxAwaits = 2
  Grace = 1
  NoRuntime = NoRuntime
  NoSession = NoSession
  NoInstance = NoInstance
  NoConn = NoConn
SPECIFICATION PaneFairSpec
CHECK_DEADLOCK FALSE
INVARIANTS ConnectedIsReachable ActiveIsReachable
PROPERTIES ClosedDocumentDisappearsUnlessAstray StaleIsResolved
