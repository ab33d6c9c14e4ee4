SPECIFICATION RecoverySpec
CONSTANTS
  dev = dev
  h1 = h1
  Agent = {a1}
  Gateway = {g1}
  Env = {dev}
  Host = {h1}
  Stranger = {}
  AgentEnv <- MCAgentEnv
  GatewayEnv <- MCGatewayEnv
  DeployForm <- MCRouted
  NoAgent = NoAgent
  NoHost = NoHost
  NoUpstream = u0
  Upstream = {u0}
  ReportedVersion = {0, 1, 2, 3}
  MaxCommand = 1
  MaxDeployment = 1
  MaxGatewayReport = 6
  MaxEpoch = 1
  MaxAsked = 2
  MaxAgentCrash = 0
  MaxDuplicate = 0
  MaxSave = 1
INVARIANTS
  WorksOnStarted
  SoundAfterRestart
  NothingIsDropped
PROPERTIES
  CommandsFinish
  PendingSettlesAfterRestart
CHECK_DEADLOCK FALSE
