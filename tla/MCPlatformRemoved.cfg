SPECIFICATION PlatformSafety
CONSTANTS
  dev = dev
  h1 = h1
  Agent = {a1,a2}
  Gateway = {}
  Env = {dev}
  Host = {h1}
  Stranger = {}
  AgentEnv <- MCAgentEnv
  GatewayEnv <- MCGatewayEnv
  DeployForm <- MCAnyForm
  NoAgent = NoAgent
  NoHost = NoHost
  NoUpstream = u0
  Upstream = {u0}
  ReportedVersion = {0, 1, 2, 3}
  MaxCommand = 2
  MaxDeployment = 1
  MaxGatewayReport = 6
  MaxEpoch = 0
  MaxAsked = 2
  MaxAgentCrash = 0
  MaxDuplicate = 0
PROPERTIES
  RemovedIsFinal
CHECK_DEADLOCK FALSE
