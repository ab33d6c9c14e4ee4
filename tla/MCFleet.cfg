SPECIFICATION FleetSpec
CONSTANTS
  p1 = p1
  p2 = p2
  twin = twin
  k1 = k1
  k2 = k2
  api = api
  dev = dev
  Process = {p1, p2, twin}
  IndexKey <- MCIndexKey
  NumberKey <- MCNumberKey
  Agent <- MCAgent
  Env = {dev}
  Host = {}
  NoAgent = NoAgent
  NoHost = NoHost
  NoUpstream = u0
  Upstream = {u0}
  ReportedVersion = {}
  MaxCommand = 1
  MaxDeployment = 1
  MaxGatewayReport = 0
  MaxAgent = 2
  MaxReset = 1
  MaxRestart = 1
INVARIANTS
  WorkedOnce
  OwnWork
PROPERTIES
  TargetsTake
CHECK_DEADLOCK FALSE
