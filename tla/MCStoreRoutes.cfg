SPECIFICATION Spec
CONSTANTS
  Agent = {a1}
  Env = {dev, prod}
  Host = {h1}
  NoAgent = NoAgent
  NoHost = NoHost
  NoUpstream = u0
  Upstream = {u0, u1}
  ReportedVersion = {0}
  MaxCommand = 3
  MaxDeployment = 2
  MaxGatewayReport = 0
SYMMETRY MCSymmetry
INVARIANTS
  OneRoutePerHost
  RouteIDsUnique
  RouteOwner
  RouteStatusNamesRoute
PROPERTIES
  VersionNamesRoutes
  RoutesChangeBySuccess
