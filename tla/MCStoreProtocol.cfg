SPECIFICATION Spec
CONSTANTS
  Agent = {a1, a2}
  Env = {dev}
  Host = {h1}
  NoAgent = NoAgent
  NoHost = NoHost
  NoUpstream = u0
  Upstream = {u0}
  ReportedVersion = {0, 1, 2}
  MaxCommand = 2
  MaxDeployment = 2
  MaxGatewayReport = 2
SYMMETRY MCSymmetry
INVARIANTS
  TypeOK
  ClaimedByTarget
  OneReportPerCommand
  DeployPairs
  PendingAwaitsReport
  SettledWasReported
  AcceptedInOrder
PROPERTIES
  CommandProgress
  ImplementsDispatch
  ImplementsRouting
