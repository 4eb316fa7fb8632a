SPECIFICATION FSpec
CONSTANTS
  Routers <- RowRouters
  Links <- RowLinks
  Attached <- RowAttached
  Dist <- RowDist
  Infinity = 4
  Cap = 1
  Starting = {"b"}
  Switched <- RowSwitchedToo
  Hosts <- RowHosts
  Home <- RowHome
  Gateway <- RowGateway
  Flows <- RowFlows
  InitTTL = 3
INVARIANTS TypeOK MetricsReal GatewayOnLink AliveAtRouters
PROPERTY NearerEachHop
