CONSTANTS
  Interval = 3
  Timeout = 2
SPECIFICATION FairSpec
CHECK_DEADLOCK FALSE
INVARIANTS ClosedWhenSilent
PROPERTIES SilentIsClosed
