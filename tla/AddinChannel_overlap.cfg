CONSTANTS
  i1 = i1
  i2 = i2
  i3 = i3
  s1 = s1
  s2 = s2
  Instances <- MCInstances
  Sessions <- MCSessions
  SessionOf <- MCSessionOf
  Conns = {c1, c2, c3}
  Grace = 1
  NoRuntime = NoRuntime
  NoSession = NoSession
  NoInstance = NoInstance
  NoConn = NoConn
SPECIFICATION Spec
SYMMETRY MCSymmetry
INVARIANTS TypeOK RoutingSound TablesAgree LinkedSessionOwned
PROPERTIES GraceHonoured
