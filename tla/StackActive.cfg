SPECIFICATION FairSpec
CONSTANTS
  Peers = {}
  Dials = {d1}
  Workers = {w1}
  Connector = connector
  User = user
  MaxObjects = 2
  MaxId = 1
  MaxPending = 1
INVARIANT TableConsistent
PROPERTY ClosedReaped
CHECK_DEADLOCK FALSE
