SPECIFICATION PlatformSpec
CONSTANTS
  dev = dev
  h1 = h1
  Agent = {a1, nobody}
  Gateway = {g1}
  Env = {dev}
  Host = {h1}
  Stranger = {nobody}
  AgentEnv <- MCAgentEnv
  GatewayEnv <- MCGatewayEnv
  DeployForm <- MCAnyForm
  NoAgent = NoAgent
  NoHost = NoHost
  NoUpstream = u0
  Upstream = {u0}
  ReportedVersion = {0, 1, 2, 3}
  MaxCommand = 2
  MaxDeployment = 2
  MaxGatewayReport = 6
  MaxEpoch = 1
  MaxAsked = 2
  MaxAgentCrash = 1
  MaxDuplicate = 1
INVARIANTS
  ActiveIsServed
PROPERTIES
  PendingSettles
  CommandsFinish
CHECK_DEADLOCK FALSE
