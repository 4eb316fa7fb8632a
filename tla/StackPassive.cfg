SPECIFICATION Spec
CONSTANTS
  Peers = {p1}
  Dials = {}
  Workers = {w1, w2}
  Connector = connector
  User = user
  MaxObjects = 2
  MaxId = 3
  MaxPending = 1
INVARIANT TypeOK
INVARIANT TableConsistent
INVARIANT NoOrphan
INVARIANT NoLostAccept
CHECK_DEADLOCK FALSE
SYMMETRY Symmetry
