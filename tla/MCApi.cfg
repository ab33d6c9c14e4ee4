SPECIFICATION ApiSpec
CONSTANTS
  dev = dev
  Client = {k1, k2}
  Agent = {a1, a2}
  Env = {dev}
  Host = {}
  AgentEnv <- MCAgentEnv
  DeployForm <- MCForm
  AuthEnabled = TRUE
  NoAgent = NoAgent
  NoHost = NoHost
  NoUpstream = u0
  Upstream = {u0}
  ReportedVersion = {}
  MaxCommand = 1
  MaxDeployment = 1
  MaxGatewayReport = 0
  MaxEpoch = 1
SYMMETRY Symmetric
INVARIANTS
  OneHolder
  AnswersTrue
  DumpKeepsReports
CHECK_DEADLOCK FALSE
