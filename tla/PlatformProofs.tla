--------------------------- MODULE PlatformProofs ---------------------------
(***************************************************************************)
(* Testers, agents and gateways use the store as Store says it is used: so *)
(* what is proved of the store holds of the platform.  An agent works on a *)
(* command only while the store has it as running for that agent, and an   *)
(* active route is one that a gateway has applied.  All of this, and the   *)
(* soundness of the store, holds over restarts of the API too (Recovery).  *)
(*                                                                         *)
(* A gateway reports versions it has fetched; that no version is beyond    *)
(* those a report may name is the hypothesis that ReportedVersion has all  *)
(* of Nat.                                                                 *)
(***************************************************************************)
EXTENDS Recovery, StoreProofs, GatewayProofs

ReportsAnyVersion == Nat \subseteq ReportedVersion

\* What the callers hold, and the deployments that commands speak of.
CallersOK ==
  /\ registered \cup forgotten \subseteq Agent \cup Gateway
  /\ request \in {NoRequest} \cup AboutRequest \cup CleanupRequest \cup DeployRequest
  /\ work \in [Agent -> [1..MaxCommand -> Work]]
  /\ fetched \in [Gateway -> FetchedState]
  /\ reported \in [Gateway -> BOOLEAN]
  /\ outbox \subseteq sent /\ sent \subseteq GatewayReport
  /\ mistaken \subseteq Route
  /\ epoch \in 0..MaxEpoch /\ crashes \in 0..MaxAgentCrash /\ duplicates \in 0..MaxDuplicate

PlatformInv == TypeOK /\ CallersOK /\ DeploymentsInRange

-----------------------------------------------------------------------------
(***************************************************************************)
(* Every step is a call of the store, a reset, or none of its business.    *)
(***************************************************************************)
LEMMA ServeStep ==
  ASSUME CallersOK, Serve
  PROVE  StoreCall
<1>1. CASE /\ request.type = DeployType
           /\ InitDeploy(request.env, request.host, request.requiresRoute, request.target)
  <2>1. request \in DeployRequest
    BY <1>1 DEF CallersOK, Serve, AboutRequest, CleanupRequest,
                DeployType, StopType, RemoveType, CleanupType
  <2>2. /\ request.env \in Env /\ request.host \in Host \cup {NoHost}
        /\ request.requiresRoute \in BOOLEAN /\ request.target \in Agent
    BY <2>1 DEF DeployRequest
  <2> QED
    BY <1>1, <2>2 DEF Call, StoreCall
<1>2. CASE /\ request.type # DeployType
           /\ CreateCommand(request.type, request.deployment, request.target)
  <2>1. CASE request \in AboutRequest
    <3>1. /\ request.type \in {StopType, RemoveType} /\ request.deployment \in 1..MaxDeployment
          /\ request.target \in Agent
      BY <2>1 DEF AboutRequest
    <3> QED
      BY <1>2, <3>1 DEF Call, StoreCall
  <2>2. CASE request \in CleanupRequest
    <3>1. request.type = CleanupType /\ request.deployment = NoID /\ request.target \in Agent
      BY <2>2 DEF CleanupRequest
    <3> QED
      BY <1>2, <3>1 DEF Call, StoreCall
  <2>3. request \notin DeployRequest
    BY <1>2 DEF DeployRequest
  <2> QED
    BY <2>1, <2>2, <2>3 DEF CallersOK, Serve
<1> QED
  BY <1>1, <1>2 DEF Serve

LEMMA AgentStep ==
  ASSUME CallersOK, NEW a \in Agent, NEW c \in 1..MaxCommand,
         \/ List(a, c) \/ CallClaim(a, c) \/ CallStart(a, c)
         \/ \E st \in FinalStatus, u \in Upstream : CallReport(a, c, st, u)
  PROVE  StoreCall
<1>1. CASE List(a, c)
  BY <1>1 DEF List, storeVars, StoreCall
<1>2. CASE CallClaim(a, c)
  BY <1>2 DEF CallClaim, storeVars, StoreCall, Call
<1>3. CASE CallStart(a, c)
  BY <1>3 DEF CallStart, storeVars, StoreCall, Call
<1>4. ASSUME NEW st \in FinalStatus, NEW u \in Upstream, CallReport(a, c, st, u)
      PROVE  StoreCall
  <2>1. work[a][c].deployment \in 0..MaxDeployment
    BY DEF CallersOK, Work
  <2> QED
    BY <1>4, <2>1 DEF CallReport, storeVars, StoreCall, Call
<1> QED
  BY <1>1, <1>2, <1>3, <1>4

LEMMA DeliverStep ==
  ASSUME ReportsAnyVersion, CallersOK, NEW m \in outbox, Deliver(m)
  PROVE  StoreCall
<1>1. m \in GatewayReport
  BY DEF CallersOK
<1>2. m.version \in ReportedVersion /\ m.status \in GatewayStatus /\ GatewayEnv[m.gateway] \in Env
  BY <1>1, PlatformAssumption DEF GatewayReport, ReportsAnyVersion, GatewayStatus
<1> QED
  BY <1>2 DEF Deliver, StoreCall, Call

LEMMA StoreSteps ==
  ASSUME ReportsAnyVersion, CallersOK, [PlatformNext]_platformVars
  PROVE  StoreCall \/ ServeReset
<1>1. CASE Testers
  <2>1. CASE Serve
    BY <2>1, ServeStep
  <2>2. CASE ServeReset
    BY <2>2
  <2> QED
    BY <1>1, <2>1, <2>2 DEF Testers, AskDeploy, AskAbout, AskCleanup, Pend, storeVars, StoreCall
<1>2. CASE Agents
  <2>1. ASSUME NEW a, Join(a) PROVE StoreCall
    BY <2>1 DEF Join, storeVars, StoreCall
  <2> QED
    BY <1>2, <2>1, AgentStep DEF Agents
<1>3. CASE \E a \in Agent : AgentCrash(a)
  BY <1>3 DEF AgentCrash, storeVars, StoreCall
<1>4. CASE Gateways
  <2>1. ASSUME NEW g, Fetch(g) \/ StartOver(g) PROVE StoreCall
    BY <2>1 DEF Fetch, StartOver, storeVars, StoreCall
  <2>2. ASSUME NEW g, NEW st, SendReport(g, st) PROVE StoreCall
    BY <2>2 DEF SendReport, storeVars, StoreCall
  <2> QED
    BY <1>4, <2>1, <2>2, DeliverStep DEF Gateways
<1>5. CASE UNCHANGED platformVars
  BY <1>5 DEF platformVars, storeVars, StoreCall
<1> QED
  BY <1>1, <1>2, <1>3, <1>4, <1>5 DEF PlatformNext

-----------------------------------------------------------------------------
(***************************************************************************)
(* The invariant of the callers.                                           *)
(***************************************************************************)
LEMMA InitPlatform == PlatformInit => PlatformInv
<1> SUFFICES ASSUME PlatformInit PROVE PlatformInv
  OBVIOUS
<1>1. TypeOK
  BY InitTypeOK DEF PlatformInit
<1>2. DeploymentsInRange
  BY DEF PlatformInit, Init, EmptyMap, DeploymentsInRange
<1>3. work \in [Agent -> [1..MaxCommand -> Work]]
  BY BoundsAssumption DEF PlatformInit, NoWork, Work, NoID
<1>4. fetched \in [Gateway -> FetchedState]
  BY DEF PlatformInit, NothingFetched, FetchedState
<1>5. epoch \in 0..MaxEpoch /\ crashes \in 0..MaxAgentCrash /\ duplicates \in 0..MaxDuplicate
  BY PlatformAssumption DEF PlatformInit
<1> QED
  BY <1>1, <1>2, <1>3, <1>4, <1>5 DEF PlatformInit, PlatformInv, CallersOK

LEMMA AgentCallersOK ==
  ASSUME PlatformInv, NEW a \in Agent, NEW c \in 1..MaxCommand,
         \/ List(a, c) \/ CallClaim(a, c) \/ CallStart(a, c)
         \/ \E st \in FinalStatus, u \in Upstream : CallReport(a, c, st, u)
  PROVE  CallersOK'
<1>1. work \in [Agent -> [1..MaxCommand -> Work]] /\ work[a][c] \in Work /\ epoch \in Nat
  <2>1. work \in [Agent -> [1..MaxCommand -> Work]] /\ epoch \in 0..MaxEpoch
    BY DEF PlatformInv, CallersOK
  <2>2. work[a] \in [1..MaxCommand -> Work]
    BY <2>1
  <2>3. work[a][c] \in Work
    BY <2>2
  <2>4. epoch \in Nat
    BY <2>1
  <2> QED
    BY <2>1, <2>3, <2>4
<1>2. OnlyWork
  BY DEF List, CallClaim, CallStart, CallReport
<1>3. ASSUME NEW w \in Work, work' = [work EXCEPT ![a][c] = w]
      PROVE  CallersOK'
  BY <1>1, <1>2, <1>3 DEF PlatformInv, CallersOK, OnlyWork
<1>4. ASSUME NEW s \in {"claim", "start", "report"}, Advance(a, c, s)
      PROVE  CallersOK'
  <2>1. [work[a][c] EXCEPT !.step = s] \in Work
    BY <1>1 DEF Work
  <2>2. work' = [work EXCEPT ![a][c] = [work[a][c] EXCEPT !.step = s]]
    BY <1>1, <1>4 DEF Advance
  <2> QED
    BY <1>3, <2>1, <2>2
<1>5. CASE Drop(a, c)
  <2>1. NoWork \in Work
    BY BoundsAssumption DEF NoWork, Work, NoID
  <2> QED
    BY <1>3, <1>5, <2>1 DEF Drop
<1>6. CASE AnswerLost
  BY <1>2, <1>6 DEF PlatformInv, CallersOK, OnlyWork, AnswerLost
<1>7. CASE List(a, c)
  <2> DEFINE w == [step |-> "claim", epoch |-> epoch, deployment |-> commands[c].deployment]
  <2>1. w \in Work
    BY <1>1, <1>7 DEF List, PlatformInv, DeploymentsInRange, Work
  <2>2. work' = [work EXCEPT ![a][c] = w]
    BY <1>7 DEF List
  <2> HIDE DEF w
  <2> QED
    BY <1>3, <2>1, <2>2
<1> QED
  BY <1>4, <1>5, <1>6, <1>7 DEF CallClaim, CallStart, CallReport

LEMMA GatewayCallersOK ==
  ASSUME PlatformInv, Gateways
  PROVE  CallersOK'
<1>1. CallersOK /\ TypeOK
  BY DEF PlatformInv
<1>2. ASSUME NEW g \in Gateway, Fetch(g)
      PROVE  CallersOK'
  <2> DEFINE ds == desiredStates[GatewayEnv[g]]
             f  == [version |-> ds.version, routes |-> ds.routes, epoch |-> epoch]
  <2>1. ds \in DesiredState
    BY <1>1, PlatformAssumption DEF TypeOK
  <2>2. f \in FetchedState
    BY <1>1, <2>1, PlatformAssumption DEF DesiredState, FetchedState, CallersOK
  <2>3. fetched' = [fetched EXCEPT ![g] = f]
    BY <1>2 DEF Fetch
  <2> HIDE DEF f
  <2>4. fetched' \in [Gateway -> FetchedState]
    BY <1>1, <2>2, <2>3 DEF CallersOK
  <2> QED
    BY <1>1, <1>2, <2>4 DEF Fetch, CallersOK
<1>3. ASSUME NEW g \in Gateway, StartOver(g)
      PROVE  CallersOK'
  <2>1. NothingFetched \in FetchedState
    BY DEF NothingFetched, FetchedState
  <2>2. fetched' \in [Gateway -> FetchedState]
    BY <1>1, <1>3, <2>1 DEF CallersOK, StartOver
  <2> QED
    BY <1>1, <1>3, <2>2 DEF StartOver, CallersOK
<1>4. ASSUME NEW g \in Gateway, NEW st \in {"applied", "failed"}, SendReport(g, st)
      PROVE  CallersOK'
  <2> DEFINE m == [gateway |-> g, version |-> fetched[g].version, status |-> st,
                   routes |-> fetched[g].routes, epoch |-> fetched[g].epoch]
  <2>1. m \in GatewayReport
    BY <1>1 DEF CallersOK, FetchedState, GatewayReport
  <2>2. outbox' = outbox \cup {m} /\ sent' = sent \cup {m}
    BY <1>4 DEF SendReport
  <2> HIDE DEF m
  <2> QED
    BY <1>1, <1>4, <2>1, <2>2 DEF SendReport, CallersOK
<1>5. ASSUME NEW m \in outbox, Deliver(m)
      PROVE  CallersOK'
  <2>1. duplicates' \in 0..MaxDuplicate /\ outbox' \subseteq outbox
    BY <1>1, <1>5, PlatformAssumption DEF Deliver, CallersOK
  <2>2. mistaken' \subseteq Route
    <3>1. GatewayEnv[m.gateway] \in Env
      BY <1>1, PlatformAssumption DEF CallersOK, GatewayReport
    <3>2. desiredStates[GatewayEnv[m.gateway]].routes \subseteq Route
      BY <1>1, <3>1 DEF TypeOK, DesiredState
    <3>3. PassesFor(m) \subseteq Route
      BY <3>2 DEF PassesFor
    <3> QED
      BY <1>1, <1>5, <3>3 DEF Deliver, CallersOK
  <2> QED
    BY <1>1, <1>5, <2>1, <2>2 DEF Deliver, CallersOK
<1> QED
  BY <1>2, <1>3, <1>4, <1>5 DEF Gateways

LEMMA TesterCallersOK ==
  ASSUME CallersOK, Testers
  PROVE  CallersOK'
<1>1. ASSUME NEW e \in Env, NEW form \in DeployForm, NEW a \in Agent, AskDeploy(e, form, a)
      PROVE  CallersOK'
  <2>1. form[1] \in Host \cup {NoHost} /\ form[2] \in BOOLEAN
    BY PlatformAssumption
  <2>2. request' \in DeployRequest
    BY <1>1, <2>1 DEF AskDeploy, Pend, DeployRequest
  <2> QED
    BY <1>1, <2>2 DEF AskDeploy, Pend, CallersOK
<1>2. ASSUME NEW t \in {StopType, RemoveType}, NEW d \in 1..MaxDeployment, NEW a \in Agent,
             AskAbout(t, d, a)
      PROVE  CallersOK'
  <2>1. request' \in AboutRequest
    BY <1>2 DEF AskAbout, Pend, AboutRequest
  <2> QED
    BY <1>2, <2>1 DEF AskAbout, Pend, CallersOK
<1>3. ASSUME NEW e \in Env, NEW a \in Agent, AskCleanup(e, a)
      PROVE  CallersOK'
  <2>1. request' \in CleanupRequest
    BY <1>3 DEF AskCleanup, Pend, CleanupRequest
  <2> QED
    BY <1>3, <2>1 DEF AskCleanup, Pend, CallersOK
<1>4. CASE Serve
  BY <1>4 DEF Serve, CallersOK
<1>5. CASE ServeReset
  <2>1. epoch' \in 0..MaxEpoch
    BY <1>5, PlatformAssumption DEF ServeReset, CallersOK
  <2> QED
    BY <1>5, <2>1 DEF ServeReset, CallersOK
<1> QED
  BY <1>1, <1>2, <1>3, <1>4, <1>5 DEF Testers

LEMMA PlatformStep ==
  ASSUME ReportsAnyVersion, PlatformInv, [PlatformNext]_platformVars
  PROVE  PlatformInv'
<1>1. TypeOK /\ CallersOK /\ DeploymentsInRange
  BY DEF PlatformInv
<1>2. StoreCall \/ ServeReset
  BY <1>1, StoreSteps
<1>3. TypeOK'
  BY <1>1, <1>2, TypeStep DEF StoreCall, ServeReset, Next
<1>4. DeploymentsInRange'
  BY <1>1, <1>2, RangeStep DEF StoreCall, ServeReset, Next
<1>5. CallersOK'
  <2>1. CASE Testers
    BY <1>1, <2>1, TesterCallersOK
  <2>2. CASE Agents
    <3>1. ASSUME NEW a \in Agent, Join(a) PROVE CallersOK'
      BY <1>1, <3>1 DEF Join, CallersOK
    <3> QED
      BY <2>2, <3>1, AgentCallersOK DEF Agents
  <2>3. ASSUME NEW a \in Agent, AgentCrash(a) PROVE CallersOK'
    <3>1. crashes' \in 0..MaxAgentCrash
      BY <1>1, <2>3, PlatformAssumption DEF AgentCrash, CallersOK
    <3>2. NoWork \in Work
      BY BoundsAssumption DEF NoWork, Work, NoID
    <3>3. work' \in [Agent -> [1..MaxCommand -> Work]]
      BY <1>1, <2>3, <3>2 DEF AgentCrash, CallersOK
    <3> QED
      BY <1>1, <2>3, <3>1, <3>3 DEF AgentCrash, CallersOK
  <2>4. CASE Gateways
    BY <2>4, GatewayCallersOK
  <2>5. CASE UNCHANGED platformVars
    BY <1>1, <2>5 DEF platformVars, localVars, CallersOK
  <2> QED
    BY <2>1, <2>2, <2>3, <2>4, <2>5 DEF PlatformNext
<1> QED
  BY <1>3, <1>4, <1>5 DEF PlatformInv

\* The store keeps its types under its real callers, and what they hold between two calls
\* is something the next call may be made with (handlers_testing.go, handlers_commands.go).
THEOREM PlatformTypeCorrect ==
  ASSUME ReportsAnyVersion
  PROVE  PlatformSafety => []PlatformTypeOK
<1>1. PlatformInv /\ [PlatformNext]_platformVars => PlatformInv'
  BY PlatformStep
<1>2. PlatformInv => PlatformTypeOK
  BY DEF PlatformInv, CallersOK, PlatformTypeOK
<1> QED
  BY <1>1, <1>2, InitPlatform, PTL DEF PlatformSafety

\* Lookups and writes in separate critical sections, lost answers, retries, crashes and
\* late reports included, the platform makes no step that Store does not allow: every
\* theorem about Spec holds of the platform.
THEOREM PlatformImplementsStore ==
  ASSUME ReportsAnyVersion
  PROVE  PlatformSafety => Spec
<1>1. PlatformInv /\ [PlatformNext]_platformVars => PlatformInv'
  BY PlatformStep
<1>2. PlatformInv /\ [PlatformNext]_platformVars => [Next]_vars
  BY StoreSteps DEF PlatformInv, StoreCall, ServeReset, Next
<1>3. PlatformInit => Init
  BY DEF PlatformInit
<1> QED
  BY <1>1, <1>2, <1>3, InitPlatform, PTL DEF PlatformSafety, Spec

-----------------------------------------------------------------------------
(***************************************************************************)
(* What an agent knows about a command it works on stays true until the    *)
(* next reset, whoever else calls in the meantime.                         *)
(***************************************************************************)
\* The strengthening of WorksOnStarted: it holds for one agent and command ID, knows of
\* the deployment from the listing on, and of no work newer than the last reset.
WorkOK(a, c) ==
  /\ work[a][c].epoch <= epoch
  /\ work[a][c].step # "none" /\ work[a][c].epoch = epoch =>
       c \in DOMAIN commands /\ commands[c].deployment = work[a][c].deployment
  /\ work[a][c].step = "report" /\ work[a][c].epoch = epoch =>
       commands[c].claimedBy = a /\ commands[c].status \in Begun

WorkInv == \A a \in Agent, c \in 1..MaxCommand : WorkOK(a, c)

LEMMA CommandStays ==
  ASSUME TypeOK, StoreCall, NEW c \in DOMAIN commands
  PROVE  /\ c \in DOMAIN commands'
         /\ commands'[c].deployment = commands[c].deployment
         /\ commands[c].status \in Begun =>
              /\ commands'[c].status \in Begun
              /\ commands'[c].claimedBy = commands[c].claimedBy
BY CommandKept DEF StoreCall, Begun, FinalStatus

LEMMA WorkKept ==
  ASSUME TypeOK, StoreCall, epoch' = epoch, NEW a, NEW c,
         WorkOK(a, c), work'[a][c] = work[a][c]
  PROVE  WorkOK(a, c)'
BY CommandStays DEF WorkOK

LEMMA WorkDropped ==
  ASSUME NEW a, NEW c, epoch' \in Nat, work'[a][c] = NoWork
  PROVE  WorkOK(a, c)'
BY DEF WorkOK, NoWork

LEMMA AgentWork ==
  ASSUME PlatformInv, WorkInv, StoreCall, NEW a \in Agent, NEW c \in 1..MaxCommand,
         \/ List(a, c) \/ CallClaim(a, c) \/ CallStart(a, c)
         \/ \E st \in FinalStatus, u \in Upstream : CallReport(a, c, st, u)
  PROVE  WorkOK(a, c)'
<1>1. /\ TypeOK /\ WorkOK(a, c)
      /\ work \in [Agent -> [1..MaxCommand -> Work]]
      /\ epoch \in Nat
  BY PlatformAssumption DEF PlatformInv, CallersOK, WorkInv
<1>2. epoch' = epoch
  BY DEF List, CallClaim, CallStart, CallReport, OnlyWork
<1>3. work[a] \in [1..MaxCommand -> Work] /\ work[a][c] \in Work
  BY <1>1
<1>4. ASSUME AnswerLost PROVE WorkOK(a, c)'
  BY <1>1, <1>2, <1>4, WorkKept DEF AnswerLost
<1>5. ASSUME Drop(a, c) PROVE WorkOK(a, c)'
  BY <1>1, <1>2, <1>3, <1>5, WorkDropped DEF Drop
<1>6. ASSUME NEW s, Advance(a, c, s)
      PROVE  /\ work'[a][c].step = s
             /\ work'[a][c].epoch = work[a][c].epoch
             /\ work'[a][c].deployment = work[a][c].deployment
  BY <1>1, <1>3, <1>6 DEF Advance, Work
<1>7. CASE List(a, c)
  <2>1. work'[a][c] = [step |-> "claim", epoch |-> epoch, deployment |-> commands[c].deployment]
    BY <1>1, <1>3, <1>7 DEF List
  <2>2. c \in DOMAIN commands /\ c \in DOMAIN commands' /\ commands'[c] = commands[c]
    BY <1>7 DEF List, storeVars, vars
  <2> QED
    BY <1>1, <1>2, <2>1, <2>2 DEF WorkOK
<1>8. CASE CallClaim(a, c)
  <2>1. work[a][c].step = "claim"
    BY <1>8 DEF CallClaim
  <2>2. CASE Advance(a, c, "start")
    BY <1>1, <1>2, <1>6, <2>1, <2>2, CommandStays DEF WorkOK
  <2> QED
    BY <1>4, <1>5, <1>8, <2>2 DEF CallClaim
<1>9. CASE CallStart(a, c)
  <2>1. work[a][c].step = "start"
    BY <1>9 DEF CallStart
  <2>2. CASE c \in DOMAIN commands /\ StartCommand(c, a) /\ Advance(a, c, "report")
    <3>1. commands'[c].claimedBy = a /\ commands'[c].status = "running"
      <4>1. commands[c] \in Command
        BY <1>1, <2>2 DEF TypeOK
      <4> QED
        BY <2>2, <4>1 DEF StartCommand, Startable, Command
    <3> QED
      BY <1>1, <1>2, <1>6, <2>1, <2>2, <3>1, CommandStays DEF WorkOK, Begun
  <2>3. CASE StartedAlready(c, a) /\ UNCHANGED storeVars /\ Advance(a, c, "report")
    BY <1>1, <1>2, <1>6, <2>1, <2>3 DEF WorkOK, Begun, StartedAlready, storeVars, vars
  <2> QED
    BY <1>4, <1>5, <1>9, <2>2, <2>3 DEF CallStart
<1>10. ASSUME NEW st \in FinalStatus, NEW u \in Upstream, CallReport(a, c, st, u)
       PROVE  WorkOK(a, c)'
  BY <1>4, <1>5, <1>10 DEF CallReport
<1> QED
  BY <1>7, <1>8, <1>9, <1>10

LEMMA OtherWork ==
  ASSUME PlatformInv, NEW b \in Agent, NEW c \in 1..MaxCommand,
         \/ List(b, c) \/ CallClaim(b, c) \/ CallStart(b, c)
         \/ \E st \in FinalStatus, u \in Upstream : CallReport(b, c, st, u)
  PROVE  \A a \in Agent, x \in 1..MaxCommand : <<a, x>> # <<b, c>> => work'[a][x] = work[a][x]
<1>1. work \in [Agent -> [1..MaxCommand -> Work]]
  BY DEF PlatformInv, CallersOK
<1>2. \E w : work' = [work EXCEPT ![b][c] = w] \/ work' = work
  BY DEF List, CallClaim, CallStart, CallReport, Advance, Drop, AnswerLost
<1> QED
  BY <1>1, <1>2

LEMMA WorkStep ==
  ASSUME ReportsAnyVersion, PlatformInv, WorkInv, [PlatformNext]_platformVars
  PROVE  WorkInv'
<1>1. TypeOK /\ CallersOK /\ work \in [Agent -> [1..MaxCommand -> Work]] /\ epoch \in Nat
  BY PlatformAssumption DEF PlatformInv, CallersOK
<1> SUFFICES ASSUME NEW a \in Agent, NEW c \in 1..MaxCommand
             PROVE  WorkOK(a, c)'
  BY DEF WorkInv
<1>2. WorkOK(a, c)
  BY DEF WorkInv
<1>3. ASSUME StoreCall, epoch' = epoch, work' = work
      PROVE  WorkOK(a, c)'
  BY <1>1, <1>2, <1>3, WorkKept
<1>4. CASE ServeReset
  <2>1. epoch' = epoch + 1 /\ work' = work
    BY <1>4 DEF ServeReset
  <2>2. work[a][c] \in Work
    <3>1. work[a] \in [1..MaxCommand -> Work]
      BY <1>1
    <3> QED
      BY <3>1
  <2>3. work[a][c].epoch \in Nat
    BY <2>2 DEF Work
  <2> QED
    BY <1>1, <1>2, <2>1, <2>3 DEF WorkOK
<1>5. CASE ~ServeReset
  <2>1. StoreCall
    BY <1>1, <1>5, StoreSteps
  <2>2. CASE Testers
    <3>1. epoch' = epoch /\ work' = work
      BY <1>5, <2>2 DEF Testers, AskDeploy, AskAbout, AskCleanup, Pend, Serve
    <3> QED
      BY <1>3, <2>1, <3>1
  <2>3. CASE Agents
    <3>1. ASSUME NEW b \in Agent, Join(b) PROVE WorkOK(a, c)'
      BY <1>3, <2>1, <3>1 DEF Join
    <3>2. ASSUME NEW b \in Agent, NEW x \in 1..MaxCommand,
                 \/ List(b, x) \/ CallClaim(b, x) \/ CallStart(b, x)
                 \/ \E st \in FinalStatus, u \in Upstream : CallReport(b, x, st, u)
          PROVE  WorkOK(a, c)'
      <4>1. epoch' = epoch
        BY <3>2 DEF List, CallClaim, CallStart, CallReport, OnlyWork
      <4>2. CASE a = b /\ c = x
        BY <2>1, <3>2, <4>2, AgentWork
      <4>3. CASE <<a, c>> # <<b, x>>
        <5>1. work'[a][c] = work[a][c]
          BY <3>2, <4>3, OtherWork
        <5> QED
          BY <1>1, <1>2, <2>1, <4>1, <5>1, WorkKept
      <4> QED
        BY <4>2, <4>3
    <3> QED
      BY <2>3, <3>1, <3>2 DEF Agents
  <2>4. ASSUME NEW b \in Agent, AgentCrash(b) PROVE WorkOK(a, c)'
    <3>1. epoch' = epoch
      BY <2>4 DEF AgentCrash
    <3>2. work' = [work EXCEPT ![b] = [x \in 1..MaxCommand |-> NoWork]]
      BY <2>4 DEF AgentCrash
    <3>3. CASE a = b
      <4>1. work'[a][c] = NoWork
        BY <1>1, <3>2, <3>3
      <4> QED
        BY <1>1, <3>1, <4>1, WorkDropped
    <3>4. CASE a # b
      <4>1. work'[a][c] = work[a][c]
        BY <1>1, <3>2, <3>4
      <4> QED
        BY <1>1, <1>2, <2>1, <3>1, <4>1, WorkKept
    <3> QED
      BY <3>3, <3>4
  <2>5. CASE Gateways
    <3>1. epoch' = epoch /\ work' = work
      BY <2>5 DEF Gateways, Fetch, StartOver, SendReport, Deliver
    <3> QED
      BY <1>3, <2>1, <3>1
  <2>6. CASE UNCHANGED platformVars
    BY <1>3, <2>1, <2>6 DEF platformVars, localVars
  <2> QED
    BY <2>2, <2>3, <2>4, <2>5, <2>6 DEF PlatformNext
<1> QED
  BY <1>4, <1>5

\* An agent never does a command's work that the store has not given to it, whatever
\* answers were lost and retried and whoever else calls (StartCommand, ReportCommand).
THEOREM WorkIsStarted ==
  ASSUME ReportsAnyVersion
  PROVE  PlatformSafety => []WorksOnStarted
<1> DEFINE Inv == PlatformInv /\ WorkInv
<1>1. PlatformInit => Inv
  <2>1. ASSUME PlatformInit PROVE WorkInv
    BY <2>1 DEF PlatformInit, WorkInv, WorkOK, NoWork
  <2> QED
    BY <2>1, InitPlatform
<1>2. Inv /\ [PlatformNext]_platformVars => Inv'
  BY PlatformStep, WorkStep
<1>3. Inv => WorksOnStarted
  BY DEF WorkInv, WorkOK, WorksOnStarted, Begun
<1> QED
  BY <1>1, <1>2, <1>3, PTL DEF PlatformSafety

-----------------------------------------------------------------------------
(***************************************************************************)
(* Commands in flight.  An agent gives a command up when it is refused, so *)
(* what is to be shown is that no call of the agent the command is for is  *)
(* refused while the command is in flight, whichever answers were lost.    *)
(***************************************************************************)
InFlight == {"claimed", "running"}

\* InFlightIsHeld for one command.
Hand(c) ==
  c \in DOMAIN commands \ orphaned =>
    LET step == work[commands[c].target][c].step
    IN /\ commands[c].status = "claimed" => step \in {"claim", "start", "report"}
       /\ commands[c].status = "running" => step \in {"start", "report"}

HandInv == ClaimedByTarget /\ IDsBounded /\ InFlightIsHeld

\* The step brings no command into flight: those in flight afterwards were so before, alike.
FlightStays(c) ==
  c \in DOMAIN commands' /\ commands'[c].status \in InFlight =>
    /\ c \in DOMAIN commands
    /\ commands'[c].status = commands[c].status /\ commands'[c].target = commands[c].target

LEMMA HandKept ==
  ASSUME NEW c, Hand(c), FlightStays(c), orphaned \subseteq orphaned',
         c \in DOMAIN commands => work'[commands[c].target][c] = work[commands[c].target][c]
  PROVE  Hand(c)'
BY DEF Hand, FlightStays, InFlight

LEMMA CreationKeepsFlight ==
  ASSUME NEW t, NEW d, NEW a, commands' = Put(commands, NextCommand, NewCommand(t, d, a))
  PROVE  \A c : FlightStays(c)
BY DEF Put, NewCommand, FlightStays, InFlight

LEMMA ServeKeepsFlight ==
  ASSUME Serve
  PROVE  \A c : FlightStays(c)
BY CreationKeepsFlight DEF Serve, InitDeploy, CreateCommand

\* A call about x leaves the other commands alone.
LEMMA OtherCommands ==
  ASSUME TypeOK, NEW b, NEW x,
         \/ List(b, x) \/ CallClaim(b, x) \/ CallStart(b, x)
         \/ \E st \in FinalStatus, u \in Upstream : CallReport(b, x, st, u)
  PROVE  \A c : c # x => FlightStays(c)
<1>1. \/ commands' = commands
      \/ ClaimCommand(x, b) \/ StartCommand(x, b)
      \/ \E d, st, u : ReportCommand(x, d, st, u)
  BY DEF List, CallClaim, CallStart, CallReport, storeVars, vars
<1>2. \A c \in DOMAIN commands : commands[c] \in Command
  BY DEF TypeOK
<1>3. /\ DOMAIN commands' = DOMAIN commands
      /\ \A c \in DOMAIN commands : c # x => commands'[c] = commands[c]
  BY <1>1, <1>2 DEF ClaimCommand, StartCommand, ReportCommand
<1> QED
  BY <1>3 DEF FlightStays

LEMMA CallerHand ==
  ASSUME PlatformInv, HandInv, NEW b \in Agent, NEW c \in 1..MaxCommand,
         \/ List(b, c) \/ CallClaim(b, c) \/ CallStart(b, c)
         \/ \E st \in FinalStatus, u \in Upstream : CallReport(b, c, st, u)
  PROVE  Hand(c)'
<1>1. /\ TypeOK /\ work \in [Agent -> [1..MaxCommand -> Work]]
      /\ Hand(c) /\ orphaned' = orphaned
      /\ c \in DOMAIN commands =>
           /\ commands[c] \in Command
           /\ commands[c].claimedBy =
                IF commands[c].status = "pending" THEN NoAgent ELSE commands[c].target
  BY DEF PlatformInv, CallersOK, HandInv, InFlightIsHeld, Hand, ClaimedByTarget, TypeOK,
         List, CallClaim, CallStart, CallReport, OnlyWork
<1>2. NoAgent \notin Agent
  BY NamesAssumption
<1>3. \A a \in Agent : a # b => work'[a][c] = work[a][c]
  BY OtherWork
<1>4. ASSUME NEW s, Advance(b, c, s) PROVE work'[b][c].step = s
  <2>1. work[b] \in [1..MaxCommand -> Work] /\ work[b][c] \in Work
    BY <1>1
  <2> QED
    BY <1>1, <1>4, <2>1 DEF Advance, Work
<1>5. c \in DOMAIN commands => commands[c].target \in Agent
  BY <1>1 DEF Command
\* A refusal: only the agent the command is for can drop it, and it is not refused.
<1>6. ASSUME commands' = commands, c \in DOMAIN commands /\ commands[c].status \in InFlight
                                     /\ commands[c].target = b => c \in orphaned
      PROVE  Hand(c)'
  <2>1. CASE c \in DOMAIN commands /\ commands[c].target # b
    BY <1>1, <1>3, <1>5, <1>6, <2>1, HandKept DEF FlightStays
  <2> QED
    BY <1>1, <1>6, <2>1 DEF Hand, InFlight
<1>7. CASE List(b, c)
  <2>1. commands' = commands
    BY <1>7 DEF List, storeVars, vars
  <2> QED
    BY <1>6, <1>7, <2>1 DEF List, InFlight
<1>8. CASE CallClaim(b, c)
  <2>1. CASE c \in DOMAIN commands /\ ClaimCommand(c, b) /\ (Advance(b, c, "start") \/ AnswerLost)
    <3>1. commands'[c].status = "claimed" /\ commands'[c].target = b
      BY <1>1, <2>1 DEF ClaimCommand, Claimable, Command
    <3>2. work'[b][c].step \in {"claim", "start"}
      BY <1>4, <1>8, <2>1 DEF CallClaim, AnswerLost
    <3> QED
      BY <3>1, <3>2 DEF Hand
  <2>2. CASE ClaimedAlready(c, b) /\ UNCHANGED storeVars /\ Advance(b, c, "start")
    <3>1. commands' = commands /\ commands[c].status = "claimed" /\ commands[c].target = b
      BY <1>1, <2>2 DEF ClaimedAlready, storeVars, vars
    <3> QED
      BY <1>4, <2>2, <3>1 DEF Hand
  <2>3. CASE /\ c \in DOMAIN commands => ~Claimable(c, b)
             /\ ~ClaimedAlready(c, b)
             /\ UNCHANGED storeVars /\ Drop(b, c)
    <3>1. commands' = commands /\ work[b][c].step = "claim"
      BY <1>8, <2>3 DEF CallClaim, storeVars, vars
    <3> QED
      BY <1>1, <1>6, <2>3, <3>1 DEF Hand, InFlight, ClaimedAlready
  <2> QED
    BY <1>8, <2>1, <2>2, <2>3 DEF CallClaim
<1>9. CASE CallStart(b, c)
  <2>1. CASE c \in DOMAIN commands /\ StartCommand(c, b) /\ (Advance(b, c, "report") \/ AnswerLost)
    <3>1. commands'[c].status = "running" /\ commands'[c].target = b
      BY <1>1, <2>1 DEF StartCommand, Startable, Command
    <3>2. work'[b][c].step \in {"start", "report"}
      BY <1>4, <1>9, <2>1 DEF CallStart, AnswerLost
    <3> QED
      BY <3>1, <3>2 DEF Hand
  <2>2. CASE StartedAlready(c, b) /\ UNCHANGED storeVars /\ Advance(b, c, "report")
    <3>1. commands' = commands /\ commands[c].status = "running" /\ commands[c].target = b
      BY <1>1, <2>2 DEF StartedAlready, storeVars, vars
    <3> QED
      BY <1>4, <2>2, <3>1 DEF Hand
  <2>3. CASE /\ c \in DOMAIN commands => ~Startable(c, b)
             /\ ~StartedAlready(c, b)
             /\ UNCHANGED storeVars /\ Drop(b, c)
    <3>1. commands' = commands
      BY <2>3 DEF storeVars, vars
    <3> QED
      BY <1>1, <1>6, <2>3, <3>1 DEF InFlight, Startable, StartedAlready
  <2> QED
    BY <1>9, <2>1, <2>2, <2>3 DEF CallStart
<1>10. ASSUME NEW st \in FinalStatus, NEW u \in Upstream, CallReport(b, c, st, u)
       PROVE  Hand(c)'
  <2>1. CASE c \in DOMAIN commands /\ ReportCommand(c, work[b][c].deployment, st, u)
    <3>1. commands'[c].status = st
      BY <1>1, <2>1 DEF ReportCommand, Command
    <3> QED
      BY <3>1 DEF Hand, FinalStatus
  <2>2. CASE UNCHANGED storeVars /\ (c \in DOMAIN commands => ~Reportable(c))
    <3>1. commands' = commands
      BY <2>2 DEF storeVars, vars
    <3> QED
      BY <1>6, <2>2, <3>1 DEF InFlight, Reportable
  <2> QED
    BY <1>10, <2>1, <2>2 DEF CallReport
<1> QED
  BY <1>7, <1>8, <1>9, <1>10

LEMMA HandStep ==
  ASSUME ReportsAnyVersion, PlatformInv, HandInv, [PlatformNext]_platformVars
  PROVE  HandInv'
<1>1. /\ TypeOK /\ CallersOK /\ work \in [Agent -> [1..MaxCommand -> Work]]
      /\ \A c \in DOMAIN commands : c \in 1..MaxCommand /\ commands[c].target \in Agent
  BY DEF PlatformInv, CallersOK, HandInv, IDsBounded, TypeOK, Command
<1>2. ClaimedByTarget' /\ IDsBounded'
  <2>1. [Next]_vars
    BY <1>1, StoreSteps DEF StoreCall, ServeReset, Next
  <2> QED
    BY <1>1, <2>1, ClaimedByTargetStep, IDsBoundedStep DEF HandInv
<1> SUFFICES ASSUME NEW c \in 1..MaxCommand PROVE Hand(c)'
  BY <1>2 DEF HandInv, IDsBounded, InFlightIsHeld, Hand
<1>3. Hand(c)
  BY DEF HandInv, InFlightIsHeld, Hand
<1>4. ASSUME FlightStays(c), UNCHANGED <<work, orphaned>>
      PROVE  Hand(c)'
  BY <1>3, <1>4, HandKept
<1>5. commands' = commands => FlightStays(c)
  BY DEF FlightStays
<1>6. CASE Testers
  <2>1. CASE Serve
    BY <1>4, <2>1, ServeKeepsFlight DEF Serve
  <2>2. CASE ServeReset
    BY <2>2 DEF ServeReset, Reset, EmptyMap, Hand
  <2> QED
    BY <1>4, <1>5, <1>6, <2>1, <2>2
       DEF Testers, AskDeploy, AskAbout, AskCleanup, Pend, storeVars, vars
<1>7. CASE Agents
  <2>1. ASSUME NEW a \in Agent, Join(a) PROVE Hand(c)'
    BY <1>4, <1>5, <2>1 DEF Join, storeVars, vars
  <2>2. ASSUME NEW b \in Agent, NEW x \in 1..MaxCommand,
               \/ List(b, x) \/ CallClaim(b, x) \/ CallStart(b, x)
               \/ \E st \in FinalStatus, u \in Upstream : CallReport(b, x, st, u)
        PROVE  Hand(c)'
    <3>1. CASE c = x
      BY <2>2, <3>1, CallerHand
    <3>2. CASE c # x
      <4>1. orphaned' = orphaned
        BY <2>2 DEF List, CallClaim, CallStart, CallReport, OnlyWork
      <4>2. FlightStays(c)
        BY <1>1, <2>2, <3>2, OtherCommands
      <4>3. \A a \in Agent : work'[a][c] = work[a][c]
        BY <2>2, <3>2, OtherWork
      <4> QED
        BY <1>1, <1>3, <4>1, <4>2, <4>3, HandKept
    <3> QED
      BY <3>1, <3>2
  <2> QED
    BY <1>7, <2>1, <2>2 DEF Agents
<1>8. ASSUME NEW b \in Agent, AgentCrash(b) PROVE Hand(c)'
  <2>1. /\ commands' = commands
        /\ work' = [work EXCEPT ![b] = [x \in 1..MaxCommand |-> NoWork]]
        /\ orphaned' = orphaned \cup
             {x \in DOMAIN commands : commands[x].claimedBy = b /\ Reportable(x)}
    BY <1>8 DEF AgentCrash, storeVars, vars
  <2>2. CASE c \in DOMAIN commands /\ commands[c].target = b
    BY <2>1, <2>2 DEF Hand, HandInv, ClaimedByTarget, Reportable
  <2>3. CASE c \notin DOMAIN commands \/ commands[c].target # b
    BY <1>1, <1>3, <1>5, <2>1, <2>3, HandKept
  <2> QED
    BY <2>2, <2>3
<1>9. CASE Gateways
  BY <1>4, <1>5, <1>9 DEF Gateways, Fetch, StartOver, SendReport, Deliver,
                          ApplyDesiredStateReport, storeVars, vars
<1>10. CASE UNCHANGED platformVars
  BY <1>4, <1>5, <1>10 DEF platformVars, localVars, storeVars, vars
<1> QED
  BY <1>6, <1>7, <1>8, <1>9, <1>10 DEF PlatformNext

LEMMA InitHand == PlatformInit => HandInv
BY DEF PlatformInit, Init, EmptyMap, HandInv, ClaimedByTarget, IDsBounded, InFlightIsHeld

\* No command in flight is given up by the agent it is for, whatever answers are lost and
\* however calls of other agents and resets come in between (ClaimCommand, StartCommand,
\* ReportCommand): what CommandsFinish needs besides fairness.
THEOREM CommandsAreHeld ==
  ASSUME ReportsAnyVersion
  PROVE  PlatformSafety => []InFlightIsHeld
<1>1. PlatformInv /\ HandInv /\ [PlatformNext]_platformVars => PlatformInv' /\ HandInv'
  BY PlatformStep, HandStep
<1>2. HandInv => InFlightIsHeld
  BY DEF HandInv
<1> QED
  BY <1>1, <1>2, InitPlatform, InitHand, PTL DEF PlatformSafety

-----------------------------------------------------------------------------
(***************************************************************************)
(* What gateways hold and have sent: a state of this epoch with the        *)
(* current version has the current routes.                                 *)
(***************************************************************************)
KnownState(f, e) ==
  /\ f.epoch <= epoch
  /\ f.epoch = epoch =>
       /\ f.version <= desiredStates[e].version
       /\ f.version = desiredStates[e].version => f.routes = desiredStates[e].routes

HeldIsKnown ==
  /\ \A g \in Gateway : KnownState(fetched[g], GatewayEnv[g])
  /\ \A m \in sent : KnownState(m, GatewayEnv[m.gateway])

LEMMA HeldTypes ==
  ASSUME PlatformInv
  PROVE  /\ TypeOK /\ epoch \in Nat
         /\ fetched \in [Gateway -> FetchedState]
         /\ \A e \in Env : desiredStates[e].version \in Nat
         /\ \A g \in Gateway : /\ fetched[g].version \in Nat /\ fetched[g].epoch \in Nat
                               /\ GatewayEnv[g] \in Env
         /\ \A m \in sent : /\ m.version \in Nat /\ m.epoch \in Nat
                            /\ m.gateway \in Gateway /\ GatewayEnv[m.gateway] \in Env
<1>1. CallersOK /\ TypeOK
  BY DEF PlatformInv
<1>2. \A e \in Env : desiredStates[e] \in DesiredState
  BY <1>1 DEF TypeOK
<1>3. \A g \in Gateway : fetched[g] \in FetchedState
  BY <1>1 DEF CallersOK
<1> QED
  BY <1>1, <1>2, <1>3, PlatformAssumption
  DEF CallersOK, FetchedState, GatewayReport, DesiredState

\* Testers and agents: none of them reports a version.
OtherCallers ==
  /\ StoreCall
  /\ UNCHANGED <<desiredStateReports, fetched, reported, outbox, sent, epoch, mistaken>>
  /\ registered' \cap Gateway = registered \cap Gateway

LEMMA PlatformCases ==
  ASSUME PlatformInv, [PlatformNext]_platformVars
  PROVE  \/ OtherCallers
         \/ ServeReset
         \/ \E m \in outbox : Deliver(m)
         \/ \E g \in Gateway : Fetch(g) \/ StartOver(g)
         \/ \E g \in Gateway, st \in {"applied", "failed"} : SendReport(g, st)
<1>1. CallersOK
  BY DEF PlatformInv
<1>2. ASSUME InitDeploy(request.env, request.host, request.requiresRoute, request.target)
             \/ CreateCommand(request.type, request.deployment, request.target)
      PROVE  UNCHANGED desiredStateReports
  BY <1>2 DEF InitDeploy, CreateCommand
<1>3. CASE Testers
  <2>1. CASE Serve
    BY <1>1, <1>2, <2>1, ServeStep DEF Serve, OtherCallers
  <2> QED
    BY <1>3, <2>1 DEF Testers, AskDeploy, AskAbout, AskCleanup, Pend, storeVars, vars,
                      StoreCall, OtherCallers
<1>4. CASE Agents
  <2>1. ASSUME NEW a \in Agent, Join(a) PROVE OtherCallers
    BY <2>1, PlatformAssumption DEF Join, storeVars, vars, StoreCall, OtherCallers
  <2>2. ASSUME NEW a \in Agent, NEW c \in 1..MaxCommand,
               \/ List(a, c) \/ CallClaim(a, c) \/ CallStart(a, c)
               \/ \E st \in FinalStatus, u \in Upstream : CallReport(a, c, st, u)
        PROVE  OtherCallers
    <3>1. StoreCall
      BY <1>1, <2>2, AgentStep
    <3>2. UNCHANGED <<registered, fetched, reported, outbox, sent, epoch, mistaken>>
      BY <2>2 DEF List, CallClaim, CallStart, CallReport, OnlyWork
    <3>3. UNCHANGED desiredStateReports
      BY <2>2 DEF List, CallClaim, CallStart, CallReport, ClaimCommand, StartCommand,
                  ReportCommand, storeVars, vars
    <3> QED
      BY <3>1, <3>2, <3>3 DEF OtherCallers
  <2> QED
    BY <1>4, <2>1, <2>2 DEF Agents
<1>5. CASE \E a \in Agent : AgentCrash(a)
  BY <1>5 DEF AgentCrash, storeVars, vars, StoreCall, OtherCallers
<1>6. CASE UNCHANGED platformVars
  BY <1>6 DEF platformVars, localVars, storeVars, vars, StoreCall, OtherCallers
<1> QED
  BY <1>3, <1>4, <1>5, <1>6 DEF PlatformNext, Gateways

\* Until a reset a version that has been passed is never current again.
StatesMove ==
  \A e \in Env :
    \/ desiredStates'[e] = desiredStates[e]
    \/ desiredStates'[e].version = desiredStates[e].version + 1

LEMMA OtherCallersMove ==
  ASSUME PlatformInv, RoutesInv, OtherCallers
  PROVE  \E d : Quiet(d) \/ Publishes(d) \/ Withdraws(d)
<1>1. TypeOK /\ OneRoutePerHost
  BY DEF PlatformInv, RoutesInv
<1>2. ASSUME NEW e \in Env, NEW v \in ReportedVersion, NEW st \in GatewayStatus,
             ApplyDesiredStateReport(e, v, st)
      PROVE  FALSE
  <2>1. PICK n \in Nat : Stored(n, e, v, st)
    BY <1>1, <1>2, ReportStored
  <2>2. 1..(n + 1) = 1..n
    BY <2>1 DEF Stored, OtherCallers
  <2> QED
    BY <2>2
<1> QED
  BY <1>1, <1>2, GatewayCalls DEF OtherCallers, StoreCall, GatewayCall

LEMMA HeldStep ==
  ASSUME PlatformInv, RoutesInv, HeldIsKnown, [PlatformNext]_platformVars
  PROVE  HeldIsKnown'
<1>1. ASSUME epoch' = epoch, StatesMove, NEW f, f.version \in Nat, NEW e \in Env, KnownState(f, e)
      PROVE  /\ f.epoch <= epoch'
             /\ f.epoch = epoch' =>
                  /\ f.version <= desiredStates'[e].version
                  /\ f.version = desiredStates'[e].version => f.routes = desiredStates'[e].routes
  BY <1>1, HeldTypes DEF KnownState, StatesMove
<1>2. ASSUME epoch' = epoch, StatesMove, fetched' = fetched, sent' = sent
      PROVE  HeldIsKnown'
  <2>1. \A g \in Gateway : KnownState(fetched[g], GatewayEnv[g])'
    BY <1>1, <1>2, HeldTypes DEF HeldIsKnown, KnownState
  <2>2. \A m \in sent' : KnownState(m, GatewayEnv[m.gateway])'
    BY <1>1, <1>2, HeldTypes DEF HeldIsKnown, KnownState
  <2> QED
    BY <2>1, <2>2 DEF HeldIsKnown
<1>3. CASE OtherCallers
  <2>1. StatesMove
    BY <1>3, OtherCallersMove DEF Quiet, Publishes, Withdraws, NoRouteStep, Published, Withdrawn,
                                  StepOf, StatesMove
  <2> QED
    BY <1>2, <1>3, <2>1 DEF OtherCallers
<1>4. CASE ServeReset
  <2>1. epoch' = epoch + 1 /\ fetched' = fetched /\ sent' = sent
    BY <1>4 DEF ServeReset
  <2> QED
    BY <2>1, HeldTypes DEF HeldIsKnown, KnownState
<1>5. CASE \E m \in outbox : Deliver(m)
  BY <1>2, <1>5 DEF Deliver, ApplyDesiredStateReport, StatesMove
<1>6. ASSUME NEW g \in Gateway, Fetch(g)
      PROVE  HeldIsKnown'
  <2> DEFINE ds == desiredStates[GatewayEnv[g]]
             f  == [version |-> ds.version, routes |-> ds.routes, epoch |-> epoch]
  <2>1. /\ fetched' = [fetched EXCEPT ![g] = f]
        /\ sent' = sent /\ epoch' = epoch /\ desiredStates' = desiredStates
    BY <1>6 DEF Fetch, storeVars, vars
  <2>2. f.version = ds.version /\ f.routes = ds.routes /\ f.epoch = epoch
    OBVIOUS
  <2> HIDE DEF f
  <2>3. fetched'[g] = f /\ \A x \in Gateway \ {g} : fetched'[x] = fetched[x]
    BY <2>1, HeldTypes
  <2>4. KnownState(fetched[g], GatewayEnv[g])'
    BY <2>1, <2>2, <2>3, HeldTypes DEF KnownState
  <2> QED
    BY <2>1, <2>3, <2>4 DEF HeldIsKnown, KnownState
<1>7. ASSUME NEW g \in Gateway, StartOver(g)
      PROVE  HeldIsKnown'
  <2>1. /\ fetched' = [fetched EXCEPT ![g] = NothingFetched]
        /\ sent' = sent /\ epoch' = epoch /\ desiredStates' = desiredStates
    BY <1>7 DEF StartOver, storeVars, vars
  <2>2. fetched'[g] = NothingFetched /\ \A x \in Gateway \ {g} : fetched'[x] = fetched[x]
    BY <2>1, HeldTypes
  <2>3. KnownState(NothingFetched, GatewayEnv[g])
    BY HeldTypes DEF KnownState, NothingFetched, RoutesInv, VersionsAgree
  <2> QED
    BY <2>1, <2>2, <2>3 DEF HeldIsKnown, KnownState
<1>8. ASSUME NEW g \in Gateway, NEW st \in {"applied", "failed"}, SendReport(g, st)
      PROVE  HeldIsKnown'
  <2> DEFINE m == [gateway |-> g, version |-> fetched[g].version, status |-> st,
                   routes |-> fetched[g].routes, epoch |-> fetched[g].epoch]
  <2>1. /\ sent' = sent \cup {m}
        /\ fetched' = fetched /\ epoch' = epoch /\ desiredStates' = desiredStates
    BY <1>8 DEF SendReport, storeVars, vars
  <2>2. /\ m.gateway = g /\ m.version = fetched[g].version
        /\ m.routes = fetched[g].routes /\ m.epoch = fetched[g].epoch
    OBVIOUS
  <2> HIDE DEF m
  <2>3. KnownState(m, GatewayEnv[g])
    BY <2>2 DEF HeldIsKnown, KnownState
  <2> QED
    BY <2>1, <2>2, <2>3 DEF HeldIsKnown, KnownState
<1> QED
  BY <1>3, <1>4, <1>5, <1>6, <1>7, <1>8, PlatformCases

LEMMA StillServed ==
  ASSUME NEW e \in Env, NEW r, Served(e, r), sent \subseteq sent', PlatformInv,
         \/ desiredStates'[e] = desiredStates[e]
         \/ desiredStates'[e].version = desiredStates[e].version + 1
  PROVE  Served(e, r)'
BY HeldTypes DEF Served

LEMMA ActiveStep ==
  ASSUME PlatformInv, RoutesInv, HeldIsKnown, ActiveIsServed, [PlatformNext]_platformVars
  PROVE  ActiveIsServed'
<1> SUFFICES ASSUME NEW e \in Env, NEW r \in desiredStates'[e].routes,
                    r.deployment \in DOMAIN deployments',
                    deployments'[r.deployment].status = "route_active"
             PROVE  Served(e, r)' \/ r \in mistaken'
  BY DEF ActiveIsServed
<1>1. ASSUME r \in desiredStates[e].routes, r.deployment \in DOMAIN deployments,
             deployments[r.deployment].status = "route_active",
             sent \subseteq sent', mistaken \subseteq mistaken', StatesMove
      PROVE  Served(e, r)' \/ r \in mistaken'
  <2>1. Served(e, r) \/ r \in mistaken
    BY <1>1 DEF ActiveIsServed
  <2> QED
    BY <1>1, <2>1, StillServed DEF StatesMove
<1>2. CASE OtherCallers
  <2>1. sent' = sent /\ mistaken' = mistaken
    BY <1>2 DEF OtherCallers
  <2>2. PICK d : Quiet(d) \/ Publishes(d) \/ Withdraws(d)
    BY <1>2, OtherCallersMove
  <2>0. StatesMove
    BY <2>2 DEF Quiet, Publishes, Withdraws, NoRouteStep, Published, Withdrawn, StepOf, StatesMove
  <2>3. CASE Quiet(d)
    BY <1>1, <2>0, <2>1, <2>3 DEF Quiet, OnlyLeaves, NoRouteStep, RouteStatus
  <2>4. CASE Publishes(d)
    <3>1. PICK r2 : Published(d, r2)
      BY <2>4 DEF Publishes
    <3>2. r.deployment # d
      BY <2>4 DEF Publishes
    <3>3. r \in desiredStates[e].routes
      BY <3>1, <3>2 DEF Published, StepOf
    <3> QED
      BY <1>1, <2>0, <2>1, <3>1, <3>2, <3>3 DEF Published, StepOf
  <2>5. CASE Withdraws(d)
    BY <1>1, <2>0, <2>1, <2>5 DEF Withdraws, Withdrawn, StepOf, RouteStatus
  <2> QED
    BY <2>2, <2>3, <2>4, <2>5
<1>3. CASE ServeReset
  BY <1>3 DEF ServeReset, Reset, EmptyMap
<1>4. ASSUME NEW m \in outbox, Deliver(m)
      PROVE  Served(e, r)' \/ r \in mistaken'
  <2> DEFINE f == GatewayEnv[m.gateway]
             d == r.deployment
  <2>1. /\ ApplyDesiredStateReport(f, m.version, m.status)
        /\ sent' = sent /\ mistaken' = mistaken \cup PassesFor(m)
        /\ m \in sent /\ desiredStates' = desiredStates
    BY <1>4 DEF Deliver, ApplyDesiredStateReport, PlatformInv, CallersOK
  <2>2. d \in DOMAIN deployments
    BY <2>1 DEF ApplyDesiredStateReport
  <2>3. CASE Settles(d, f, m.version, m.status)
    <3>1. m.status = "applied"
      <4>1. deployments[d] \in Deployment
        BY <2>2, Types, HeldTypes
      <4>2. deployments'[d].status = Settled(m.status)
        BY <2>1, <2>2, <2>3, <4>1 DEF ApplyDesiredStateReport, Deployment
      <4> QED
        BY <4>2 DEF Settled
    <3>2. m.version = desiredStates[f].version /\ deployments[d].env = f
      BY <2>1, <2>3, HeldTypes DEF Settles, Current, Stale, Invalid
    <3>3. e = f
      BY <2>1, <2>2, <3>2 DEF RoutesInv, RouteOwner
    <3>4. CASE m.epoch = epoch
      BY <2>1, <3>1, <3>2, <3>3, <3>4, HeldTypes DEF HeldIsKnown, KnownState, Served
    <3>5. CASE m.epoch < epoch
      <4>1. CASE r \in m.routes
        BY <2>1, <3>1, <3>2, <3>3, <4>1, HeldTypes DEF Served
      <4>2. CASE r \notin m.routes
        <5>1. r \in PassesFor(m)
          BY <2>1, <2>3, <3>1, <3>3, <3>5, <4>2 DEF PassesFor
        <5> QED
          BY <2>1, <5>1
      <4> QED
        BY <4>1, <4>2
    <3> QED
      BY <2>1, <3>4, <3>5, HeldTypes DEF HeldIsKnown, KnownState
  <2>4. CASE ~Settles(d, f, m.version, m.status)
    BY <1>1, <2>1, <2>2, <2>4 DEF ApplyDesiredStateReport, StatesMove
  <2> QED
    BY <2>3, <2>4
<1>5. CASE \/ \E g \in Gateway : Fetch(g) \/ StartOver(g)
           \/ \E g \in Gateway, st \in {"applied", "failed"} : SendReport(g, st)
  BY <1>1, <1>5 DEF Fetch, StartOver, SendReport, storeVars, vars, StatesMove
<1> QED
  BY <1>2, <1>3, <1>4, <1>5, PlatformCases

LEMMA ServedInitially == PlatformInit => HeldIsKnown /\ ActiveIsServed
<1> SUFFICES ASSUME PlatformInit PROVE HeldIsKnown /\ ActiveIsServed
  OBVIOUS
<1>1. \A e \in Env : desiredStates[e].version = 0 /\ desiredStates[e].routes = {}
  BY DEF PlatformInit, Init
<1>2. /\ epoch = 0 /\ sent = {}
      /\ \A g \in Gateway : fetched[g] = NothingFetched
  BY DEF PlatformInit
<1>3. HeldIsKnown
  <2>1. /\ NothingFetched.epoch = 0 /\ NothingFetched.version = 0
        /\ NothingFetched.routes = {}
    BY DEF NothingFetched
  <2>2. \A g \in Gateway : KnownState(NothingFetched, GatewayEnv[g])
    BY <1>1, <1>2, <2>1, PlatformAssumption DEF KnownState
  <2> QED
    BY <1>2, <2>2 DEF HeldIsKnown
<1>4. ActiveIsServed
  BY <1>1 DEF ActiveIsServed
<1> QED
  BY <1>3, <1>4

\* An active route is one that a gateway of its environment has fetched and applied, in
\* whatever order reports arrive and however often, unless a report of before a reset that
\* does not name it has passed for one of after it (ApplyDesiredStateReport, Reset).
THEOREM ActiveRoutesAreServed ==
  ASSUME ReportsAnyVersion
  PROVE  PlatformSafety => []ActiveIsServed
<1>2. PlatformInv /\ RoutesInv /\ HeldIsKnown /\ ActiveIsServed /\ [PlatformNext]_platformVars
        => HeldIsKnown' /\ ActiveIsServed'
  BY HeldStep, ActiveStep
<1>3. PlatformInv /\ [PlatformNext]_platformVars => PlatformInv'
  BY PlatformStep
<1>4. PlatformSafety => []RoutesInv
  BY PlatformImplementsStore, RoutesInvariant, PTL
<1> QED
  BY <1>2, <1>3, <1>4, InitPlatform, ServedInitially, PTL DEF PlatformSafety

-----------------------------------------------------------------------------
(***************************************************************************)
(* Pending routes.  Nothing that happens while a route is pending leaves a *)
(* gateway of its environment with nothing to do: a new version is one it  *)
(* has not fetched, and a report of the current one, once it is delivered, *)
(* leaves no route pending.                                                *)
(***************************************************************************)
\* PendingIsUnderWay for one deployment, up to versions issued twice.
UnderWay(d) ==
  deployments[d].status = "route_pending" =>
    /\ desiredStates[deployments[d].env].version > 0
    /\ \A g \in Gateway : GatewayEnv[g] = deployments[d].env =>
         \/ IsToReport(g, desiredStates[deployments[d].env].version)
         \/ Mistakes(g)

UnderWayInv == \A d \in DOMAIN deployments : UnderWay(d)

\* What d and the gateways know of its environment is as it was.
SamePending(d) ==
  /\ d \in DOMAIN deployments
  /\ deployments[d].status = "route_pending"
  /\ deployments'[d].env = deployments[d].env
  /\ desiredStates'[deployments[d].env] = desiredStates[deployments[d].env]

LEMMA PendingSame ==
  ASSUME PlatformInv, NEW d \in DOMAIN deployments', UnderWay(d), SamePending(d), epoch' = epoch,
         \A g \in Gateway : GatewayEnv[g] = deployments[d].env =>
           \/ /\ g \in registered' => g \in registered
              /\ fetched'[g] = fetched[g] /\ reported'[g] = reported[g]
              /\ \A m \in outbox : /\ m.gateway = g
                                   /\ m.version = desiredStates[deployments[d].env].version
                                   => m \in outbox'
           \/ IsToReport(g, desiredStates[deployments[d].env].version)'
  PROVE  UnderWay(d)'
BY DEF UnderWay, SamePending, IsToReport, Mistakes

\* A version that nobody can have fetched yet.
LEMMA PendingNew ==
  ASSUME PlatformInv, HeldIsKnown, NEW d \in DOMAIN deployments', OtherCallers,
         deployments'[d].env \in Env,
         desiredStates'[deployments'[d].env].version
           = desiredStates[deployments'[d].env].version + 1
  PROVE  UnderWay(d)'
<1>1. PICK v \in Nat : v = desiredStates[deployments'[d].env].version
  BY HeldTypes
<1>2. epoch \in Nat /\ epoch' = epoch /\ fetched' = fetched /\ reported' = reported
  BY HeldTypes DEF OtherCallers
<1>3. ASSUME NEW g \in Gateway, GatewayEnv[g] = deployments'[d].env
      PROVE  IsToReport(g, v + 1)' \/ Mistakes(g)'
  <2>1. /\ fetched[g].version \in Nat /\ fetched[g].epoch \in Nat
        /\ KnownState(fetched[g], GatewayEnv[g]) /\ reported[g] \in BOOLEAN
    BY HeldTypes DEF HeldIsKnown, PlatformInv, CallersOK
  <2>2. CASE fetched[g].epoch = epoch
    <3>1. fetched[g].version <= v
      BY <1>1, <1>3, <2>1, <2>2 DEF KnownState
    <3>2. fetched'[g].version # v + 1
      BY <1>2, <2>1, <3>1
    <3> QED
      BY <3>2 DEF IsToReport
  <2>3. CASE fetched[g].epoch < epoch
    BY <1>1, <1>2, <1>3, <2>1, <2>3 DEF IsToReport, Mistakes
  <2> QED
    BY <1>2, <2>1, <2>2, <2>3 DEF KnownState
<1>4. desiredStates'[deployments'[d].env].version = v + 1 /\ v + 1 > 0
  BY <1>1
<1> QED
  BY <1>3, <1>4 DEF UnderWay

LEMMA OtherCallersPending ==
  ASSUME PlatformInv, RoutesInv, OtherCallers, NEW d \in DOMAIN deployments',
         deployments'[d].status = "route_pending"
  PROVE  \/ SamePending(d)
         \/ /\ deployments'[d].env \in Env
            /\ desiredStates'[deployments'[d].env].version
                 = desiredStates[deployments'[d].env].version + 1
<1>1. PICK x : Quiet(x) \/ Publishes(x) \/ Withdraws(x)
  BY OtherCallersMove
<1>2. \A y \in DOMAIN deployments : deployments[y].env \in Env
  BY Types, HeldTypes DEF Deployment
<1>3. CASE Quiet(x)
  BY <1>3 DEF Quiet, OnlyLeaves, NoRouteStep, KeepsRoute, SameForm, RouteStatus, SamePending
<1>4. CASE Publishes(x) \/ Withdraws(x)
  <2>1. StepOf(x)
    BY <1>4 DEF Publishes, Withdraws, Published, Withdrawn
  <2>2. d \in DOMAIN deployments /\ deployments'[d].env = deployments[d].env
        /\ deployments[x].env \in Env /\ deployments[d].env \in Env
    BY <1>2, <2>1 DEF StepOf, SameForm
  <2>3. CASE deployments[d].env = deployments[x].env
    BY <2>1, <2>2, <2>3 DEF StepOf
  <2>4. CASE deployments[d].env # deployments[x].env
    BY <2>1, <2>2, <2>4 DEF StepOf, SamePending
  <2> QED
    BY <2>3, <2>4
<1> QED
  BY <1>1, <1>3, <1>4

LEMMA DeliveredPending ==
  ASSUME PlatformInv, UnderWayInv, NEW m \in outbox, Deliver(m), NEW d \in DOMAIN deployments'
  PROVE  UnderWay(d)'
<1> SUFFICES ASSUME deployments'[d].status = "route_pending"
             PROVE  UnderWay(d)'
  BY DEF UnderWay
<1> DEFINE f == GatewayEnv[m.gateway]
<1>1. /\ ApplyDesiredStateReport(f, m.version, m.status)
      /\ UNCHANGED <<registered, fetched, reported, epoch, desiredStates>>
      /\ outbox \ {m} \subseteq outbox'
      /\ m \in GatewayReport
  BY DEF Deliver, ApplyDesiredStateReport, PlatformInv, CallersOK
<1>2. d \in DOMAIN deployments /\ deployments[d] \in Deployment
  BY <1>1, Types, HeldTypes DEF ApplyDesiredStateReport
<1>3. /\ ~Settles(d, f, m.version, m.status)
      /\ deployments'[d] = deployments[d]
  BY <1>1, <1>2 DEF ApplyDesiredStateReport, Settled, Deployment
<1>4. SamePending(d) /\ UnderWay(d)
  BY <1>1, <1>2, <1>3 DEF SamePending, UnderWayInv
\* The report is not of the current version, so nobody was waiting for it.
<1>5. ~(f = deployments[d].env /\ m.version = desiredStates[f].version)
  <2>1. m.status \in {"applied", "failed"} /\ m.version \in Nat
    BY <1>1 DEF GatewayReport
  <2>2. f = deployments[d].env => desiredStates[f].version \in Nat
    BY <1>2, HeldTypes DEF Deployment
  <2> QED
    BY <1>3, <1>4, <2>1, <2>2 DEF Settles, Current, Stale, Invalid, SamePending
<1> QED
  BY <1>1, <1>4, <1>5, PendingSame

LEMMA UnderWayStep ==
  ASSUME PlatformInv, RoutesInv, HeldIsKnown, UnderWayInv, [PlatformNext]_platformVars
  PROVE  UnderWayInv'
<1> SUFFICES ASSUME NEW d \in DOMAIN deployments', deployments'[d].status = "route_pending"
             PROVE  UnderWay(d)'
  BY DEF UnderWayInv, UnderWay
<1>1. CASE OtherCallers
  <2>1. CASE SamePending(d)
    BY <1>1, <2>1, PendingSame DEF OtherCallers, UnderWayInv, SamePending
  <2> QED
    BY <1>1, <2>1, OtherCallersPending, PendingNew
<1>2. CASE ServeReset
  BY <1>2 DEF ServeReset, Reset, EmptyMap
<1>3. CASE \E m \in outbox : Deliver(m)
  BY <1>3, DeliveredPending
<1>4. ASSUME UNCHANGED <<storeVars, epoch>>
      PROVE  UnderWay(d) /\ SamePending(d)
  BY <1>4 DEF UnderWayInv, SamePending, storeVars, vars
<1>5. ASSUME NEW g \in Gateway, Fetch(g)
      PROVE  UnderWay(d)'
  <2>1. /\ reported' = [reported EXCEPT ![g] = FALSE]
        /\ UNCHANGED <<storeVars, epoch, registered, outbox>>
        /\ \A x \in Gateway : x # g => fetched'[x] = fetched[x]
    BY <1>5, HeldTypes DEF Fetch
  <2>2. ~reported'[g] /\ \A x \in Gateway : x # g => reported'[x] = reported[x]
    BY <2>1 DEF PlatformInv, CallersOK
  <2> QED
    BY <1>4, <2>1, <2>2, PendingSame DEF IsToReport
<1>6. ASSUME NEW g \in Gateway, StartOver(g)
      PROVE  UnderWay(d)'
  <2>1. /\ registered' = registered \cup {g}
        /\ fetched' = [fetched EXCEPT ![g] = NothingFetched]
        /\ reported' = [reported EXCEPT ![g] = TRUE]
        /\ UNCHANGED <<storeVars, epoch, outbox>>
    BY <1>6 DEF StartOver
  <2>2. fetched'[g].version = 0 /\ \A x \in Gateway : x # g => fetched'[x] = fetched[x]
    <3>1. fetched'[g] = NothingFetched
      BY <2>1, HeldTypes
    <3> QED
      BY <2>1, <3>1, HeldTypes DEF NothingFetched
  <2>3. \A x \in Gateway : x # g => reported'[x] = reported[x]
    BY <2>1 DEF PlatformInv, CallersOK
  <2>4. desiredStates[deployments[d].env].version # 0
    BY <1>4, <2>1 DEF UnderWay, SamePending
  <2>5. IsToReport(g, desiredStates[deployments[d].env].version)'
    BY <1>4, <2>1, <2>2, <2>4 DEF IsToReport, SamePending
  <2>6. \A x \in Gateway : x # g /\ x \in registered' => x \in registered
    BY <2>1
  <2> QED
    BY <1>4, <2>1, <2>2, <2>3, <2>5, <2>6, PendingSame
<1>7. ASSUME NEW g \in Gateway, NEW st \in {"applied", "failed"}, SendReport(g, st)
      PROVE  UnderWay(d)'
  <2> DEFINE m == [gateway |-> g, version |-> fetched[g].version, status |-> st,
                   routes |-> fetched[g].routes, epoch |-> fetched[g].epoch]
  <2>1. /\ outbox' = outbox \cup {m}
        /\ reported' = [reported EXCEPT ![g] = TRUE]
        /\ UNCHANGED <<storeVars, epoch, registered, fetched>>
    BY <1>7 DEF SendReport
  <2>2. m.gateway = g /\ m.version = fetched[g].version
    OBVIOUS
  <2> HIDE DEF m
  <2>3. \A x \in Gateway : x # g => reported'[x] = reported[x]
    BY <2>1 DEF PlatformInv, CallersOK
  <2>4. IsToReport(g, desiredStates[deployments[d].env].version)'
    BY <1>4, <2>1, <2>2 DEF IsToReport, SamePending
  <2> QED
    BY <1>4, <2>1, <2>3, <2>4, PendingSame
<1> QED
  BY <1>1, <1>2, <1>3, <1>5, <1>6, <1>7, PlatformCases

\* Without restarts nobody mistakes a version: a gateway the store knows has fetched from it
\* since the last reset or not at all.
FetchedSinceReset ==
  \A g \in Gateway : g \in registered => fetched[g].epoch = epoch \/ fetched[g].version = 0

LEMMA FetchedStep ==
  ASSUME PlatformInv, FetchedSinceReset, [PlatformNext]_platformVars
  PROVE  FetchedSinceReset'
<1>1. CASE OtherCallers
  BY <1>1 DEF OtherCallers, FetchedSinceReset
<1>2. CASE ServeReset
  BY <1>2 DEF ServeReset, FetchedSinceReset
<1>3. CASE \E m \in outbox : Deliver(m)
  BY <1>3 DEF Deliver, FetchedSinceReset
<1>4. ASSUME NEW g \in Gateway, Fetch(g)
      PROVE  FetchedSinceReset'
  <2> DEFINE ds == desiredStates[GatewayEnv[g]]
             f  == [version |-> ds.version, routes |-> ds.routes, epoch |-> epoch]
  <2>1. fetched' = [fetched EXCEPT ![g] = f] /\ UNCHANGED <<registered, epoch>>
    BY <1>4 DEF Fetch
  <2>2. f.epoch = epoch
    OBVIOUS
  <2> HIDE DEF f
  <2>3. fetched'[g] = f /\ \A x \in Gateway : x # g => fetched'[x] = fetched[x]
    BY <2>1, HeldTypes
  <2> QED
    BY <2>1, <2>2, <2>3 DEF FetchedSinceReset
<1>5. ASSUME NEW g \in Gateway, StartOver(g)
      PROVE  FetchedSinceReset'
  <2>1. /\ fetched' = [fetched EXCEPT ![g] = NothingFetched]
        /\ registered' = registered \cup {g} /\ epoch' = epoch
    BY <1>5 DEF StartOver
  <2>2. fetched'[g] = NothingFetched /\ \A x \in Gateway : x # g => fetched'[x] = fetched[x]
    BY <2>1, HeldTypes
  <2>3. NothingFetched.version = 0
    BY DEF NothingFetched
  <2> QED
    BY <2>1, <2>2, <2>3 DEF FetchedSinceReset
<1>6. CASE \E g \in Gateway, st \in {"applied", "failed"} : SendReport(g, st)
  BY <1>6 DEF SendReport, FetchedSinceReset
<1> QED
  BY <1>1, <1>2, <1>3, <1>4, <1>5, <1>6, PlatformCases

LEMMA InitUnderWay == PlatformInit => UnderWayInv /\ FetchedSinceReset
BY DEF PlatformInit, Init, EmptyMap, UnderWayInv, FetchedSinceReset

\* While a route is pending every gateway of its environment has yet to be heard of the
\* current version, whatever is deployed, reported and reset meanwhile (incrementDesiredState,
\* ApplyDesiredStateReport): what PendingSettles needs besides fairness.
THEOREM PendingRoutesAreUnderWay ==
  ASSUME ReportsAnyVersion
  PROVE  PlatformSafety => []PendingIsUnderWay
<1> DEFINE Inv == PlatformInv /\ HeldIsKnown /\ UnderWayInv /\ FetchedSinceReset
<1>1. PlatformInit => Inv
  BY InitPlatform, ServedInitially, InitUnderWay
<1>2. Inv /\ RoutesInv /\ [PlatformNext]_platformVars => Inv'
  BY PlatformStep, HeldStep, UnderWayStep, FetchedStep
<1>3. PlatformSafety => []RoutesInv
  BY PlatformImplementsStore, RoutesInvariant, PTL
<1>4. Inv => PendingIsUnderWay
  <2> SUFFICES ASSUME Inv, NEW d \in DOMAIN deployments, NEW g \in Gateway,
                      deployments[d].status = "route_pending", deployments[d].env = GatewayEnv[g]
               PROVE  IsToReport(g, desiredStates[GatewayEnv[g]].version)
    BY DEF PendingIsUnderWay
  <2>1. /\ UnderWay(d) /\ epoch \in Nat
        /\ g \in registered => fetched[g].epoch = epoch \/ fetched[g].version = 0
    BY HeldTypes DEF UnderWayInv, FetchedSinceReset
  <2> QED
    BY <2>1 DEF UnderWay, IsToReport, Mistakes
<1> QED
  BY <1>1, <1>2, <1>3, <1>4, PTL DEF PlatformSafety

-----------------------------------------------------------------------------
(***************************************************************************)
(* Restarts: the store is sound whenever the process ends and from         *)
(* whatever snapshot it goes on.                                           *)
(*                                                                         *)
(* The invariant says the same of two stores, the one in memory and the    *)
(* one in the state file (Saved): a save makes the second a copy of the    *)
(* first, a restart the first a copy of the second, and every other step   *)
(* is one of Store (as above), which keeps the first sound.                *)
(***************************************************************************)

\* The store that a start would restore.
Saved == INSTANCE Store WITH
  commands <- saved.commands, deployments <- saved.deployments,
  commandReports <- saved.commandReports, desiredStates <- saved.desiredStates,
  desiredStateReports <- saved.desiredStateReports, counters <- saved.counters

SavedSound ==
  /\ Saved!TypeOK
  /\ Saved!ClaimedByTarget /\ Saved!OneReportPerCommand /\ Saved!DeployPairs
  /\ Saved!OneRoutePerHost /\ Saved!RouteIDsUnique /\ Saved!RouteOwner
  /\ Saved!RouteStatusNamesRoute /\ Saved!VersionsAgree
  /\ \A c \in DOMAIN saved.commands : saved.commands[c].deployment \in 0..MaxDeployment
  /\ saved.registered \subseteq Agent \cup Gateway

StoreSound ==
  /\ TypeOK
  /\ ClaimedByTarget /\ OneReportPerCommand /\ DeployPairs
  /\ OneRoutePerHost /\ RouteIDsUnique /\ RouteOwner /\ RouteStatusNamesRoute /\ VersionsAgree

RecoveryInv == PlatformInv /\ StoreSound /\ WorkInv /\ SavedSound

-----------------------------------------------------------------------------
\* The two stores hold the same.
Equal ==
  /\ saved.commands = commands /\ saved.deployments = deployments
  /\ saved.commandReports = commandReports /\ saved.desiredStates = desiredStates
  /\ saved.desiredStateReports = desiredStateReports /\ saved.counters = counters
  /\ saved.registered = registered

LEMMA EqualStores ==
  Equal => /\ Saved!TypeOK <=> TypeOK
           /\ Saved!ClaimedByTarget <=> ClaimedByTarget
           /\ Saved!OneReportPerCommand <=> OneReportPerCommand
           /\ Saved!DeployPairs <=> DeployPairs
           /\ Saved!OneRoutePerHost <=> OneRoutePerHost
           /\ Saved!RouteIDsUnique <=> RouteIDsUnique
           /\ Saved!RouteOwner <=> RouteOwner
           /\ Saved!RouteStatusNamesRoute <=> RouteStatusNamesRoute
           /\ Saved!VersionsAgree <=> VersionsAgree
<1> SUFFICES ASSUME Equal
             PROVE  /\ Saved!TypeOK <=> TypeOK
                    /\ Saved!ClaimedByTarget <=> ClaimedByTarget
                    /\ Saved!OneReportPerCommand <=> OneReportPerCommand
                    /\ Saved!DeployPairs <=> DeployPairs
                    /\ Saved!OneRoutePerHost <=> OneRoutePerHost
                    /\ Saved!RouteIDsUnique <=> RouteIDsUnique
                    /\ Saved!RouteOwner <=> RouteOwner
                    /\ Saved!RouteStatusNamesRoute <=> RouteStatusNamesRoute
                    /\ Saved!VersionsAgree <=> VersionsAgree
  OBVIOUS
<1>1. Saved!FinalStatus = FinalStatus /\ Saved!RouteStatus = RouteStatus
  BY DEF FinalStatus, Saved!FinalStatus, RouteStatus, Saved!RouteStatus
<1>2. /\ Saved!CommandType = CommandType /\ Saved!CommandStatus = CommandStatus
      /\ Saved!DeploymentStatus = DeploymentStatus /\ Saved!GatewayStatus = GatewayStatus
  BY <1>1 DEF CommandType, DeployType, StopType, RemoveType, CleanupType, CommandStatus,
              DeploymentStatus, GatewayStatus, Saved!CommandType, Saved!DeployType,
              Saved!StopType, Saved!RemoveType, Saved!CleanupType, Saved!CommandStatus,
              Saved!DeploymentStatus, Saved!GatewayStatus
<1>3. /\ Saved!Command = Command /\ Saved!Deployment = Deployment /\ Saved!Route = Route
      /\ Saved!CommandReport = CommandReport /\ Saved!Counters = Counters
      /\ Saved!DesiredStateReport = DesiredStateReport
  BY <1>1, <1>2
     DEF Command, Deployment, Route, CommandReport, Counters, DesiredStateReport,
         Saved!Command, Saved!Deployment, Saved!Route, Saved!CommandReport, Saved!Counters,
         Saved!DesiredStateReport
<1>4. Saved!DesiredState = DesiredState
  BY <1>3 DEF DesiredState, Saved!DesiredState
<1>5. Saved!TypeOK <=> TypeOK
  BY <1>3, <1>4 DEF Equal, TypeOK, Saved!TypeOK
<1>6. /\ Saved!ClaimedByTarget <=> ClaimedByTarget
      /\ Saved!OneReportPerCommand <=> OneReportPerCommand
      /\ Saved!DeployPairs <=> DeployPairs
  BY <1>1 DEF Equal, ClaimedByTarget, OneReportPerCommand, DeployPairs, DeployType,
              Saved!ClaimedByTarget, Saved!OneReportPerCommand, Saved!DeployPairs,
              Saved!DeployType
<1>7. /\ Saved!OneRoutePerHost <=> OneRoutePerHost
      /\ Saved!RouteIDsUnique <=> RouteIDsUnique
      /\ Saved!VersionsAgree <=> VersionsAgree
  BY DEF Equal, OneRoutePerHost, RouteIDsUnique, VersionsAgree, Saved!OneRoutePerHost,
         Saved!RouteIDsUnique, Saved!VersionsAgree
<1>8. /\ Saved!RouteOwner <=> RouteOwner
      /\ Saved!RouteStatusNamesRoute <=> RouteStatusNamesRoute
  BY <1>1 DEF Equal, RouteOwner, RouteStatusNamesRoute, WantsRoute, NoID, Saved!RouteOwner,
              Saved!RouteStatusNamesRoute, Saved!WantsRoute, Saved!NoID
<1> QED
  BY <1>5, <1>6, <1>7, <1>8

InMemory == StoreSound /\ DeploymentsInRange /\ registered \subseteq Agent \cup Gateway

LEMMA EqualSound == Equal => (SavedSound <=> InMemory)
BY EqualStores DEF SavedSound, InMemory, StoreSound, DeploymentsInRange, Equal

\* Nobody touches the file.
LEMMA SavedStays ==
  ASSUME SavedSound, saved' = saved
  PROVE  SavedSound'
<1>1. Saved!TypeOK'
  BY DEF SavedSound, Saved!TypeOK
<1>2. Saved!ClaimedByTarget' /\ Saved!OneReportPerCommand' /\ Saved!DeployPairs'
  BY DEF SavedSound, Saved!ClaimedByTarget, Saved!OneReportPerCommand, Saved!DeployPairs
<1>3. Saved!OneRoutePerHost' /\ Saved!RouteIDsUnique' /\ Saved!VersionsAgree'
  BY DEF SavedSound, Saved!OneRoutePerHost, Saved!RouteIDsUnique, Saved!VersionsAgree
<1>4. Saved!RouteOwner' /\ Saved!RouteStatusNamesRoute'
  BY DEF SavedSound, Saved!RouteOwner, Saved!RouteStatusNamesRoute, Saved!WantsRoute
<1> QED
  BY <1>1, <1>2, <1>3, <1>4 DEF SavedSound

LEMMA SoundInit == Init => StoreSound
<1> SUFFICES ASSUME Init PROVE StoreSound
  OBVIOUS
<1>1. TypeOK /\ RoutesInv
  BY InitTypeOK, InitRoutes
<1>2. ClaimedByTarget /\ OneReportPerCommand /\ DeployPairs
  BY DEF Init, EmptyMap, ClaimedByTarget, OneReportPerCommand, DeployPairs
<1> QED
  BY <1>1, <1>2 DEF RoutesInv, StoreSound

LEMMA SoundStep ==
  ASSUME StoreSound, [Next]_vars
  PROVE  StoreSound'
<1>1. /\ TypeOK /\ ClaimedByTarget /\ OneReportPerCommand /\ DeployPairs
      /\ RoutesInv
  BY DEF StoreSound, RoutesInv
<1>2. TypeOK' /\ RoutesInv'
  BY <1>1, TypeStep, RoutesStep
<1>3. ClaimedByTarget' /\ OneReportPerCommand' /\ DeployPairs'
  BY <1>1, ClaimedByTargetStep, OneReportStep, DeployPairsStep
<1> QED
  BY <1>2, <1>3 DEF RoutesInv, StoreSound

-----------------------------------------------------------------------------
LEMMA RecoveryStarts == RecoveryInit => RecoveryInv
<1> SUFFICES ASSUME RecoveryInit PROVE RecoveryInv
  OBVIOUS
<1>1. PlatformInv /\ StoreSound
  BY InitPlatform, SoundInit DEF RecoveryInit, PlatformInit
<1>2. WorkInv
  BY DEF RecoveryInit, PlatformInit, WorkInv, WorkOK, NoWork
<1>3. Equal
  BY DEF RecoveryInit, PlatformInit, Init, NewStore, Equal
<1>4. SavedSound
  BY <1>1, <1>3, EqualSound DEF InMemory, PlatformInv, CallersOK
<1> QED
  BY <1>1, <1>2, <1>4 DEF RecoveryInv

\* A step of the platform, the reset included, as far as the store in memory goes.
LEMMA MemoryStep ==
  ASSUME ReportsAnyVersion, RecoveryInv, [PlatformNext]_platformVars
  PROVE  PlatformInv' /\ WorkInv' /\ StoreSound' /\ InMemory'
<1>1. PlatformInv' /\ WorkInv'
  BY PlatformStep, WorkStep DEF RecoveryInv
<1>2. [Next]_vars
  BY StoreSteps DEF RecoveryInv, PlatformInv, StoreCall, ServeReset, Next
<1>3. StoreSound'
  BY <1>2, SoundStep DEF RecoveryInv
<1> QED
  BY <1>1, <1>3 DEF InMemory, PlatformInv, CallersOK

\* A restart goes on with the snapshot or with nothing, and both are sound.
LEMMA RestartMemory ==
  ASSUME RecoveryInv, Restart
  PROVE  SavedSound' /\ InMemory'
<1>1. saved' = saved
  BY DEF Restart
<1>2. SavedSound'
  BY <1>1, SavedStays DEF RecoveryInv
<1>3. PICK s \in {saved, NewStore} : Restore(s)
  BY DEF Restart
<1>4. CASE s = saved
  <2>1. Equal'
    BY <1>1, <1>3, <1>4 DEF Restore, Equal
  <2>2. Equal' => (SavedSound' <=> InMemory')
    BY EqualSound, PTL
  <2> QED
    BY <1>2, <2>1, <2>2
<1>5. CASE s = NewStore
  <2>1. Init' /\ registered' = {} /\ commands' = EmptyMap
    BY <1>3, <1>5 DEF Restore, NewStore, Init
  <2>2. Init' => StoreSound'
    BY SoundInit, PTL
  <2>3. DeploymentsInRange'
    BY <2>1 DEF EmptyMap, DeploymentsInRange
  <2> QED
    BY <1>2, <2>1, <2>2, <2>3 DEF InMemory
<1> QED
  BY <1>3, <1>4, <1>5

\* What an agent holds is carried over a restart as it is, but for the epoch, which becomes
\* the new one only if the restored store knows of it.
LEMMA WorkCarriedOver ==
  ASSUME RecoveryInv, NEW s, Restore(s), work' = WorkOver(s), epoch' = epoch + 1,
         NEW a \in Agent, NEW c \in 1..MaxCommand
  PROVE  /\ work'[a][c] \in Work
         /\ work'[a][c].step = work[a][c].step
         /\ WorkOK(a, c)'
<1> DEFINE w == work[a][c]
<1>1. epoch \in Nat /\ work[a] \in [1..MaxCommand -> Work]
  BY PlatformAssumption DEF RecoveryInv, PlatformInv, CallersOK
<1>2. w \in Work /\ w.epoch <= epoch
  <2>1. w \in Work
    BY <1>1
  <2>2. WorkOK(a, c)
    BY DEF RecoveryInv, WorkInv
  <2> QED
    BY <2>1, <2>2 DEF WorkOK
<1>3. work'[a][c] = IF RestsOn(s, a, c) THEN [w EXCEPT !.epoch = epoch'] ELSE w
  BY DEF WorkOver
<1>4. CASE RestsOn(s, a, c)
  <2>1. work'[a][c] = [w EXCEPT !.epoch = epoch']
    BY <1>3, <1>4
  <2>2. /\ work'[a][c] \in Work
        /\ work'[a][c].step = w.step /\ work'[a][c].deployment = w.deployment
        /\ work'[a][c].epoch = epoch'
    BY <1>1, <1>2, <2>1 DEF Work
  <2>3. /\ c \in DOMAIN commands' /\ commands'[c].deployment = w.deployment
        /\ w.step = "report" =>
             commands'[c].claimedBy = a /\ commands'[c].status \in Begun
    BY <1>4 DEF RestsOn, Restore, Begun
  <2> QED
    BY <1>1, <2>2, <2>3 DEF WorkOK
<1>5. CASE ~RestsOn(s, a, c)
  <2>1. work'[a][c] = w
    BY <1>3, <1>5
  <2>2. w.epoch \in Nat
    BY <1>2 DEF Work
  <2>3. w.epoch < epoch'
    BY <1>1, <1>2, <2>2
  <2> QED
    BY <1>1, <1>2, <2>1, <2>2, <2>3 DEF WorkOK
<1> QED
  BY <1>4, <1>5

LEMMA RestartStep ==
  ASSUME RecoveryInv, Restart
  PROVE  RecoveryInv'
<1>1. SavedSound' /\ InMemory'
  BY RestartMemory
<1>2. PICK s \in {saved, NewStore} : Restore(s) /\ work' = WorkOver(s)
  BY DEF Restart
<1>3. /\ CallersOK /\ TypeOK' /\ DeploymentsInRange' /\ registered' \subseteq Agent \cup Gateway
      /\ epoch \in Nat /\ epoch' \in 0..MaxEpoch /\ epoch' = epoch + 1
  BY <1>1, PlatformAssumption
     DEF RecoveryInv, PlatformInv, CallersOK, InMemory, StoreSound, Restart
<1>4. \A a \in Agent, c \in 1..MaxCommand : work'[a][c] \in Work /\ WorkOK(a, c)'
  BY <1>2, <1>3, WorkCarriedOver
<1>5. work' \in [Agent -> [1..MaxCommand -> Work]]
  BY <1>2, <1>4 DEF WorkOver
<1>6. CallersOK'
  BY <1>3, <1>5 DEF Restart, CallersOK
<1>7. WorkInv'
  BY <1>4 DEF WorkInv
<1> QED
  BY <1>1, <1>3, <1>6, <1>7 DEF RecoveryInv, PlatformInv, InMemory

LEMMA RecoveryStep ==
  ASSUME ReportsAnyVersion, RecoveryInv, [RecoveryNext]_recoveryVars
  PROVE  RecoveryInv'
<1>0. Equal' => (SavedSound' <=> InMemory')
  BY EqualSound, PTL
<1>1. CASE PlatformNext /\ UNCHANGED <<saved, saves>>
  BY <1>1, MemoryStep, SavedStays DEF RecoveryInv
<1>2. CASE ResetRemovesFile
  <2>1. Equal'
    BY <1>2 DEF ResetRemovesFile, ServeReset, Reset, NewStore, Equal
  <2>2. PlatformNext
    BY <1>2 DEF ResetRemovesFile, PlatformNext, Testers
  <2> QED
    BY <1>0, <2>1, <2>2, MemoryStep DEF RecoveryInv
<1>3. CASE Save
  <2>1. Equal'
    BY <1>3 DEF Save, Snapshot, Equal, platformVars, storeVars, vars, localVars
  <2>2. UNCHANGED platformVars
    BY <1>3 DEF Save
  <2> QED
    BY <1>0, <2>1, <2>2, MemoryStep DEF RecoveryInv
<1>4. CASE Restart
  BY <1>4, RestartStep
<1>5. CASE UNCHANGED recoveryVars
  BY <1>5, MemoryStep, SavedStays DEF RecoveryInv, recoveryVars
<1> QED
  BY <1>1, <1>2, <1>3, <1>4, <1>5 DEF RecoveryNext

LEMMA RecoveryInvariant ==
  ASSUME ReportsAnyVersion
  PROVE  RecoverySafety => []RecoveryInv
<1>1. RecoveryInv /\ [RecoveryNext]_recoveryVars => RecoveryInv'
  BY RecoveryStep
<1> QED
  BY <1>1, RecoveryStarts, PTL DEF RecoverySafety

\* The process may end at any point and start from any snapshot it has saved, a reset may
\* come in between: commands, deployments and routes go on agreeing with each other and
\* with the counters (Snapshot, Restore, main).
THEOREM SoundOverRestarts ==
  ASSUME ReportsAnyVersion
  PROVE  RecoverySafety => []SoundAfterRestart
<1>1. RecoveryInv => SoundAfterRestart
  BY DEF RecoveryInv, StoreSound, SoundAfterRestart, PlatformInv, CallersOK, PlatformTypeOK
<1> QED
  BY <1>1, RecoveryInvariant, PTL

\* Over restarts too an agent works on what the store has started for it: work it holds
\* while the process goes back to a snapshot that had seen the start is work on the restored
\* command, whatever is issued, claimed and reported afterwards.  Work on a start that the
\* snapshot had not seen, or on a number it had not issued, is not spoken of (Restore,
\* StartCommand, ReportCommand).
THEOREM WorkIsStartedOverRestarts ==
  ASSUME ReportsAnyVersion
  PROVE  RecoverySafety => []WorksOnStarted
<1>1. RecoveryInv => WorksOnStarted
  BY DEF RecoveryInv, WorkInv, WorkOK, WorksOnStarted, Begun
<1> QED
  BY <1>1, RecoveryInvariant, PTL

-----------------------------------------------------------------------------
\* The active routes of the snapshot were served, too.
SavedServed ==
  \A e \in Env : \A r \in saved.desiredStates[e].routes :
    /\ r.deployment \in DOMAIN saved.deployments
    /\ saved.deployments[r.deployment].status = "route_active"
    => \/ r \in mistaken
       \/ \E m \in sent : /\ m.status = "applied" /\ GatewayEnv[m.gateway] = e
                         /\ m.version <= saved.desiredStates[e].version
                         /\ r \in m.routes

ServedInv == HeldIsKnown /\ ActiveIsServed /\ SavedServed

LEMMA SavedStaysServed ==
  ASSUME SavedServed, saved' = saved, sent \subseteq sent', mistaken \subseteq mistaken'
  PROVE  SavedServed'
BY DEF SavedServed

LEMMA EqualServed == Equal => (SavedServed <=> ActiveIsServed)
BY DEF Equal, SavedServed, ActiveIsServed, Served

\* Reports are not taken back.
LEMMA HistoryGrows ==
  ASSUME PlatformInv, [PlatformNext]_platformVars
  PROVE  sent \subseteq sent' /\ mistaken \subseteq mistaken'
<1>1. CASE OtherCallers
  BY <1>1 DEF OtherCallers
<1>2. CASE ServeReset
  BY <1>2 DEF ServeReset
<1>3. CASE \E m \in outbox : Deliver(m)
  BY <1>3 DEF Deliver
<1>4. CASE \E g \in Gateway : Fetch(g) \/ StartOver(g)
  BY <1>4 DEF Fetch, StartOver
<1>5. CASE \E g \in Gateway, st \in {"applied", "failed"} : SendReport(g, st)
  BY <1>5 DEF SendReport
<1> QED
  BY <1>1, <1>2, <1>3, <1>4, <1>5, PlatformCases

LEMMA ServedStep ==
  ASSUME RecoveryInv, ServedInv, [RecoveryNext]_recoveryVars
  PROVE  ServedInv'
<1>0. Equal' => (SavedServed' <=> ActiveIsServed')
  BY EqualServed, PTL
<1>1. PlatformInv /\ RoutesInv
  BY DEF RecoveryInv, StoreSound, RoutesInv
<1>2. ASSUME [PlatformNext]_platformVars
      PROVE  HeldIsKnown' /\ ActiveIsServed'
  BY <1>1, <1>2, HeldStep, ActiveStep DEF ServedInv
<1>3. CASE PlatformNext /\ UNCHANGED <<saved, saves>>
  BY <1>1, <1>2, <1>3, HistoryGrows, SavedStaysServed DEF ServedInv
<1>4. CASE ResetRemovesFile
  <2>1. Equal'
    BY <1>4 DEF ResetRemovesFile, ServeReset, Reset, NewStore, Equal
  <2>2. PlatformNext
    BY <1>4 DEF ResetRemovesFile, PlatformNext, Testers
  <2> QED
    BY <1>0, <1>2, <2>1, <2>2 DEF ServedInv
<1>5. CASE Save
  <2>1. Equal'
    BY <1>5 DEF Save, Snapshot, Equal, platformVars, storeVars, vars, localVars
  <2> QED
    BY <1>0, <1>2, <1>5, <2>1 DEF Save, ServedInv
<1>6. CASE Restart
  <2>1. /\ saved' = saved /\ sent' = sent /\ mistaken' = mistaken
        /\ fetched' = fetched /\ epoch' = epoch + 1
    BY <1>6 DEF Restart
  <2>2. HeldIsKnown'
    BY <1>1, <2>1, HeldTypes DEF ServedInv, HeldIsKnown, KnownState
  <2>3. SavedServed'
    BY <2>1, SavedStaysServed DEF ServedInv
  <2>4. PICK s \in {saved, NewStore} : Restore(s)
    BY <1>6 DEF Restart
  <2>5. CASE s = saved
    <3>1. Equal'
      BY <2>1, <2>4, <2>5 DEF Restore, Equal
    <3> QED
      BY <1>0, <2>2, <2>3, <3>1 DEF ServedInv
  <2>6. CASE s = NewStore
    <3>1. \A e \in Env : desiredStates'[e].routes = {}
      BY <2>4, <2>6 DEF Restore, NewStore
    <3>2. ActiveIsServed'
      BY <3>1 DEF ActiveIsServed
    <3> QED
      BY <2>2, <2>3, <3>2 DEF ServedInv
  <2> QED
    BY <2>4, <2>5, <2>6
<1>7. CASE UNCHANGED recoveryVars
  BY <1>1, <1>2, <1>7, HistoryGrows, SavedStaysServed DEF ServedInv, recoveryVars
<1> QED
  BY <1>3, <1>4, <1>5, <1>6, <1>7 DEF RecoveryNext

\* A route that is active, after a restart too, is one that a gateway of its environment has
\* fetched, exactly this one, and applied, at some time before: a snapshot makes no route
\* active that was not, and numbers that are issued again only do so in the one case that
\* `mistaken' records, a report of before the reset or restart that passes for one of after
\* it without naming the route (Snapshot, Restore, ApplyDesiredStateReport).
THEOREM ActiveRoutesAreServedOverRestarts ==
  ASSUME ReportsAnyVersion
  PROVE  RecoverySafety => []ActiveIsServed
<1>1. RecoveryInit => ServedInv
  <2> SUFFICES ASSUME RecoveryInit PROVE ServedInv
    OBVIOUS
  <2>1. HeldIsKnown /\ ActiveIsServed
    BY ServedInitially DEF RecoveryInit
  <2>2. \A e \in Env : saved.desiredStates[e].routes = {}
    BY DEF RecoveryInit, NewStore
  <2> QED
    BY <2>1, <2>2 DEF ServedInv, SavedServed
<1>2. RecoveryInv /\ ServedInv /\ [RecoveryNext]_recoveryVars => ServedInv'
  BY ServedStep
<1>3. ServedInv => ActiveIsServed
  BY DEF ServedInv
<1> QED
  BY <1>1, <1>2, <1>3, RecoveryInvariant, PTL DEF RecoverySafety

-----------------------------------------------------------------------------
\* What a restart needs of the snapshot: command IDs within the bound, and no route pending
\* that no version was issued for.
SavedBounded ==
  /\ DOMAIN saved.commands \subseteq 1..MaxCommand
  /\ \A d \in DOMAIN saved.deployments :
       saved.deployments[d].status = "route_pending" =>
         saved.desiredStates[saved.deployments[d].env].version > 0

DroppedInv == HandInv /\ UnderWayInv /\ SavedBounded

LEMMA EqualBounded ==
  ASSUME Equal, HandInv, UnderWayInv
  PROVE  SavedBounded
BY DEF Equal, HandInv, IDsBounded, UnderWayInv, UnderWay, SavedBounded

\* What is in flight after a restart and not held is what Stranded names, and every gateway
\* has fetched in an earlier epoch, if at all.
LEMMA RestartDropsNothing ==
  ASSUME RecoveryInv, RecoveryInv', HeldIsKnown, SavedBounded, Restart
  PROVE  DroppedInv'
<1>1. /\ saved' = saved /\ epoch' = epoch + 1 /\ epoch \in Nat
      /\ UNCHANGED <<fetched, reported>>
  BY HeldTypes DEF RecoveryInv, Restart
<1>2. PICK s \in {saved, NewStore} : Restore(s) /\ work' = WorkOver(s) /\ orphaned' = Stranded(s)
  BY DEF Restart
<1>3. ClaimedByTarget'
  BY DEF RecoveryInv, StoreSound
<1>4. /\ DOMAIN s.commands \subseteq 1..MaxCommand
      /\ \A d \in DOMAIN s.deployments :
           s.deployments[d].status = "route_pending" =>
             s.desiredStates[s.deployments[d].env].version > 0
  BY <1>2 DEF SavedBounded, NewStore, EmptyMap
<1>5. SavedBounded' /\ IDsBounded'
  BY <1>1, <1>2, <1>4 DEF SavedBounded, IDsBounded, Restore
<1>6. InFlightIsHeld'
  <2> SUFFICES ASSUME NEW c \in DOMAIN s.commands, c \notin Stranded(s)
               PROVE  LET step == work'[s.commands[c].target][c].step
                      IN /\ s.commands[c].status = "claimed" => step \in {"claim", "start", "report"}
                         /\ s.commands[c].status = "running" => step \in {"start", "report"}
    BY <1>2 DEF InFlightIsHeld, Restore
  <2>1. s.commands[c].target \in Agent
    BY <1>2 DEF RecoveryInv, StoreSound, TypeOK, Command, Restore
  <2>2. work'[s.commands[c].target][c].step = work[s.commands[c].target][c].step
    BY <1>1, <1>2, <1>4, <2>1, WorkCarriedOver
  <2> QED
    BY <2>2 DEF Stranded, Carried
<1>7. UnderWayInv'
  <2> SUFFICES ASSUME NEW d \in DOMAIN deployments', deployments'[d].status = "route_pending",
                      NEW g \in Gateway, GatewayEnv[g] = deployments'[d].env
               PROVE  (IsToReport(g, desiredStates[deployments[d].env].version) \/ Mistakes(g))'
    BY <1>2, <1>4 DEF UnderWayInv, UnderWay, Restore
  <2>1. fetched[g].epoch \in Nat /\ fetched[g].epoch <= epoch /\ reported[g] \in BOOLEAN
    BY HeldTypes DEF HeldIsKnown, KnownState, RecoveryInv, PlatformInv, CallersOK
  <2>2. fetched'[g].epoch < epoch'
    BY <1>1, <2>1
  <2> QED
    BY <1>1, <2>1, <2>2 DEF IsToReport, Mistakes
<1> QED
  BY <1>3, <1>5, <1>6, <1>7 DEF DroppedInv, HandInv

LEMMA DroppedStep ==
  ASSUME ReportsAnyVersion, RecoveryInv, HeldIsKnown, DroppedInv, [RecoveryNext]_recoveryVars
  PROVE  DroppedInv'
<1>1. PlatformInv /\ RoutesInv
  BY DEF RecoveryInv, StoreSound, RoutesInv
<1>2. ASSUME [PlatformNext]_platformVars
      PROVE  HandInv' /\ UnderWayInv'
  BY <1>1, <1>2, HandStep, UnderWayStep DEF DroppedInv
<1>3. Equal' /\ HandInv' /\ UnderWayInv' => SavedBounded'
  BY EqualBounded, PTL
<1>4. CASE PlatformNext /\ UNCHANGED <<saved, saves>>
  BY <1>2, <1>4 DEF DroppedInv, SavedBounded
<1>5. CASE ResetRemovesFile
  <2>1. Equal'
    BY <1>5 DEF ResetRemovesFile, ServeReset, Reset, NewStore, Equal
  <2>2. PlatformNext
    BY <1>5 DEF ResetRemovesFile, PlatformNext, Testers
  <2> QED
    BY <1>2, <1>3, <2>1, <2>2 DEF DroppedInv
<1>6. CASE Save
  <2>1. Equal'
    BY <1>6 DEF Save, Snapshot, Equal, platformVars, storeVars, vars, localVars
  <2> QED
    BY <1>2, <1>3, <1>6, <2>1 DEF Save, DroppedInv
<1>7. CASE Restart
  BY <1>7, RecoveryStep, RestartDropsNothing DEF DroppedInv
<1>8. CASE UNCHANGED recoveryVars
  BY <1>2, <1>8 DEF DroppedInv, SavedBounded, recoveryVars
<1> QED
  BY <1>4, <1>5, <1>6, <1>7, <1>8 DEF RecoveryNext

\* Also over restarts whatever is unfinished is still up to somebody, except what the
\* restart is shown to have cost: commands whose claim, start or report it has taken back
\* (Stranded) and versions issued again that a gateway takes for those it knows (Mistakes).
THEOREM NothingIsDroppedOverRestarts ==
  ASSUME ReportsAnyVersion
  PROVE  RecoverySafety => []NothingIsDropped
<1>1. RecoveryInit => DroppedInv /\ ServedInv
  <2> SUFFICES ASSUME RecoveryInit PROVE DroppedInv /\ ServedInv
    OBVIOUS
  <2>1. HandInv /\ UnderWayInv
    BY InitHand, InitUnderWay DEF RecoveryInit
  <2>2. Equal
    BY DEF RecoveryInit, PlatformInit, Init, NewStore, Equal
  <2> QED
    BY <2>1, <2>2, EqualBounded, EqualServed, ServedInitially DEF RecoveryInit, DroppedInv, ServedInv
<1>2. RecoveryInv /\ ServedInv /\ DroppedInv /\ [RecoveryNext]_recoveryVars
        => DroppedInv' /\ ServedInv'
  BY DroppedStep, ServedStep DEF ServedInv
<1>3. DroppedInv => NothingIsDropped
  BY DEF DroppedInv, HandInv, UnderWayInv, UnderWay, NothingIsDropped
<1> QED
  BY <1>1, <1>2, <1>3, RecoveryInvariant, PTL DEF RecoverySafety

=============================================================================
