SPECIFICATION FairSpec
CONSTANTS
  Routers <- RowRouters
  Links <- RowLinks
  Attached <- RowAttached
  Dist <- RowDist
  Infinity = 3
  Cap = 1
  Starting = {"b"}
  Switched <- RowSwitched
PROPERTY Converges
