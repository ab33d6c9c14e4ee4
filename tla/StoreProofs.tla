---------------------------- MODULE StoreProofs ----------------------------
(***************************************************************************)
(* What package internal/store keeps true for every set of agents,         *)
(* environments, hosts and upstreams and any number of commands,           *)
(* deployments and reports: its types first, then the life of a command.   *)
(* Routes are left to RouteProofs, gateway reports to GatewayProofs.       *)
(***************************************************************************)
EXTENDS Store, TLAPS, SequenceTheorems

\* A map that gains or overwrites one entry is a map on the larger domain.
LEMMA PutType ==
  ASSUME NEW S, NEW n \in Nat, NEW m \in [1..n -> S], NEW v \in S
  PROVE  Put(m, n + 1, v) \in [1..(n + 1) -> S]
BY DEF Put

LEMMA InitTypeOK == Init => TypeOK
<1> SUFFICES ASSUME Init PROVE TypeOK
  OBVIOUS
<1>1. counters \in Counters
  BY DEF Init, Counters
<1>2. commands \in [1..counters.command -> Command]
  BY DEF Init, EmptyMap
<1>3. deployments \in [1..counters.deployment -> Deployment]
  BY DEF Init, EmptyMap
<1>4. desiredStates \in [Env -> DesiredState]
  BY DEF Init, DesiredState
<1>5. commandReports \in Seq(CommandReport) /\ desiredStateReports \in Seq(DesiredStateReport)
  BY DEF Init
<1> QED
  BY <1>1, <1>2, <1>3, <1>4, <1>5 DEF TypeOK

LEMMA InitDeployType ==
  ASSUME TypeOK, NEW e \in Env, NEW h \in Host \cup {NoHost}, NEW rr \in BOOLEAN,
         NEW a \in Agent, InitDeploy(e, h, rr, a)
  PROVE  TypeOK'
<1> DEFINE dep == [env |-> e, host |-> h, requiresRoute |-> rr, target |-> a,
                   command |-> NextCommand, status |-> "command_created",
                   upstream |-> NoUpstream, route |-> NoID]
           cmd == NewCommand(DeployType, NextDeployment, a)
<1>1. /\ counters \in Counters
      /\ NextDeployment = counters.deployment + 1 /\ NextDeployment \in Nat
      /\ NextCommand = counters.command + 1 /\ NextCommand \in Nat
  BY DEF TypeOK, Counters, NextDeployment, NextCommand
<1>2. counters' = [counters EXCEPT !.deployment = NextDeployment, !.command = NextCommand]
  BY DEF InitDeploy
<1>3. /\ counters' \in Counters
      /\ counters'.command = NextCommand
      /\ counters'.deployment = NextDeployment
  BY <1>1, <1>2 DEF Counters
<1>4. dep \in Deployment
  BY <1>1, NamesAssumption DEF Deployment, DeploymentStatus, NoID
<1>5. cmd \in Command
  BY <1>1 DEF NewCommand, Command, CommandType, CommandStatus
<1>6. deployments' \in [1..NextDeployment -> Deployment]
  <2>1. deployments' = Put(deployments, NextDeployment, dep)
    BY DEF InitDeploy
  <2>2. counters.deployment \in Nat /\ deployments \in [1..counters.deployment -> Deployment]
    BY <1>1 DEF TypeOK, Counters
  <2> QED
    BY <1>1, <1>4, <2>1, <2>2, PutType
<1>7. commands' \in [1..NextCommand -> Command]
  <2>1. commands' = Put(commands, NextCommand, cmd)
    BY DEF InitDeploy
  <2>2. counters.command \in Nat /\ commands \in [1..counters.command -> Command]
    BY <1>1 DEF TypeOK, Counters
  <2> QED
    BY <1>1, <1>5, <2>1, <2>2, PutType
<1> QED
  BY <1>3, <1>6, <1>7 DEF TypeOK, InitDeploy

LEMMA CreateCommandType ==
  ASSUME TypeOK, NEW t \in CommandType, NEW d \in Nat, NEW a \in Agent, CreateCommand(t, d, a)
  PROVE  TypeOK'
<1> DEFINE cmd == NewCommand(t, d, a)
<1>1. /\ counters \in Counters
      /\ NextCommand = counters.command + 1 /\ NextCommand \in Nat
  BY DEF TypeOK, Counters, NextCommand
<1>2. counters' = [counters EXCEPT !.command = NextCommand]
  BY DEF CreateCommand
<1>3. /\ counters' \in Counters
      /\ counters'.command = NextCommand
      /\ counters'.deployment = counters.deployment
  BY <1>1, <1>2 DEF Counters
<1>4. cmd \in Command
  BY DEF NewCommand, Command, CommandStatus
<1>5. commands' \in [1..NextCommand -> Command]
  <2>1. commands' = Put(commands, NextCommand, cmd)
    BY DEF CreateCommand
  <2>2. counters.command \in Nat /\ commands \in [1..counters.command -> Command]
    BY <1>1 DEF TypeOK, Counters
  <2> QED
    BY <1>1, <1>4, <2>1, <2>2, PutType
<1> QED
  BY <1>3, <1>5 DEF TypeOK, CreateCommand

LEMMA ClaimCommandType ==
  ASSUME TypeOK, NEW c \in DOMAIN commands, NEW a \in Agent, ClaimCommand(c, a)
  PROVE  TypeOK'
<1>1. commands' \in [1..counters.command -> Command]
  BY DEF TypeOK, ClaimCommand, Command, CommandStatus
<1> QED
  BY <1>1 DEF TypeOK, ClaimCommand

LEMMA StartCommandType ==
  ASSUME TypeOK, NEW c \in DOMAIN commands, NEW a \in Agent, StartCommand(c, a)
  PROVE  TypeOK'
<1>1. commands' \in [1..counters.command -> Command]
  BY DEF TypeOK, StartCommand, Command, CommandStatus
<1>2. deployments' \in [1..counters.deployment -> Deployment]
  BY ZenonT(30) DEF TypeOK, StartCommand, Deployment, DeploymentStatus
<1> QED
  BY <1>1, <1>2 DEF TypeOK, StartCommand

\* The three ways desired state and counters move together.
LEMMA RetargetRouteType ==
  ASSUME TypeOK, NEW d \in DOMAIN deployments, NEW u \in Upstream,
         NEW r \in RoutesOfHost(deployments[d].env, deployments[d].host),
         RetargetRoute(d, u, r)
  PROVE  /\ r.id \in Nat
         /\ desiredStates' \in [Env -> DesiredState]
         /\ counters' \in Counters
         /\ counters'.command = counters.command
         /\ counters'.deployment = counters.deployment
<1> DEFINE e  == deployments[d].env
           r2 == [r EXCEPT !.upstream = u, !.deployment = d]
           rs == (desiredStates[e].routes \ {r}) \cup {r2}
<1>1. e \in Env /\ d \in Nat
  BY DEF TypeOK, Deployment, Counters
<1>2. desiredStates[e] \in DesiredState
  BY <1>1 DEF TypeOK
<1>3. r \in Route /\ r.id \in Nat
  BY <1>2 DEF RoutesOfHost, DesiredState, Route
<1>4. r2 \in Route
  BY <1>1, <1>3 DEF Route
<1>5. rs \in SUBSET Route /\ desiredStates[e].version + 1 \in Nat
  BY <1>2, <1>4 DEF DesiredState
<1>6. desiredStates' \in [Env -> DesiredState]
  <2> HIDE DEF rs
  <2>1. desiredStates' = BumpedState(e, rs)
    BY DEF RetargetRoute, rs
  <2> QED
    BY <1>1, <1>5, <2>1 DEF TypeOK, BumpedState, DesiredState
<1>7. /\ counters' \in Counters
      /\ counters'.command = counters.command
      /\ counters'.deployment = counters.deployment
  <2>1. counters' = [counters EXCEPT !.version[e] = desiredStates[e].version + 1]
    BY DEF RetargetRoute
  <2>2. counters \in Counters
    BY DEF TypeOK
  <2> HIDE DEF e
  <2> QED
    BY <1>1, <1>5, <2>1, <2>2 DEF Counters
<1> QED
  BY <1>3, <1>6, <1>7

LEMMA AddRouteType ==
  ASSUME TypeOK, NEW d \in DOMAIN deployments, NEW u \in Upstream, WantsRoute(d), AddRoute(d, u)
  PROVE  /\ NextRoute \in Nat
         /\ desiredStates' \in [Env -> DesiredState]
         /\ counters' \in Counters
         /\ counters'.command = counters.command
         /\ counters'.deployment = counters.deployment
<1> DEFINE e  == deployments[d].env
           r2 == [id |-> NextRoute, host |-> deployments[d].host, upstream |-> u, deployment |-> d]
           rs == desiredStates[e].routes \cup {r2}
<1>1. e \in Env /\ d \in Nat /\ deployments[d].host \in Host
  BY DEF TypeOK, Deployment, Counters, WantsRoute
<1>2. desiredStates[e] \in DesiredState
  BY <1>1 DEF TypeOK
<1>3. counters \in Counters /\ NextRoute \in Nat
  BY DEF TypeOK, Counters, NextRoute
<1>4. r2 \in Route
  BY <1>1, <1>3 DEF Route
<1>5. rs \in SUBSET Route /\ desiredStates[e].version + 1 \in Nat
  BY <1>2, <1>4 DEF DesiredState
<1>6. desiredStates' \in [Env -> DesiredState]
  <2> HIDE DEF rs
  <2>1. desiredStates' = BumpedState(e, rs)
    BY DEF AddRoute, rs
  <2> QED
    BY <1>1, <1>5, <2>1 DEF TypeOK, BumpedState, DesiredState
<1>7. /\ counters' \in Counters
      /\ counters'.command = counters.command
      /\ counters'.deployment = counters.deployment
  <2>1. counters' = [counters EXCEPT !.version[e] = desiredStates[e].version + 1,
                                     !.route = NextRoute]
    BY DEF AddRoute
  <2> HIDE DEF e
  <2> QED
    BY <1>1, <1>3, <1>5, <2>1 DEF Counters
<1> QED
  BY <1>3, <1>6, <1>7

LEMMA RemoveRouteType ==
  ASSUME TypeOK, NEW e \in Env, NEW i, RemoveRoute(e, i)
  PROVE  /\ desiredStates' \in [Env -> DesiredState]
         /\ counters' \in Counters
         /\ counters'.command = counters.command
         /\ counters'.deployment = counters.deployment
<1> DEFINE rs == RemainingRoutes(e, i)
<1>1. desiredStates[e] \in DesiredState
  BY DEF TypeOK
<1>2. rs \in SUBSET Route /\ desiredStates[e].version + 1 \in Nat
  BY <1>1 DEF DesiredState, RemainingRoutes
<1>3. desiredStates' \in [Env -> DesiredState]
  <2> HIDE DEF rs
  <2>1. desiredStates' = BumpedState(e, rs)
    BY DEF RemoveRoute, rs
  <2> QED
    BY <1>2, <2>1 DEF TypeOK, BumpedState, DesiredState
<1>4. /\ counters' \in Counters
      /\ counters'.command = counters.command
      /\ counters'.deployment = counters.deployment
  <2>1. counters' = [counters EXCEPT !.version[e] = desiredStates[e].version + 1]
    BY DEF RemoveRoute
  <2>2. counters \in Counters
    BY DEF TypeOK
  <2> QED
    BY <1>2, <2>1, <2>2 DEF Counters
<1> QED
  BY <1>3, <1>4

LEMMA ApplySucceededType ==
  ASSUME TypeOK, NEW c \in DOMAIN commands, NEW d \in Nat, NEW u \in Upstream,
         ApplySucceeded(c, d, u)
  PROVE  /\ deployments' \in [1..counters'.deployment -> Deployment]
         /\ desiredStates' \in [Env -> DesiredState]
         /\ counters' \in Counters
         /\ counters'.command = counters.command
<1>1. /\ counters \in Counters
      /\ deployments \in [1..counters.deployment -> Deployment]
      /\ desiredStates \in [Env -> DesiredState]
  BY DEF TypeOK
<1>2. CASE d \in DOMAIN deployments /\ DeploySucceeded(d, u)
  <2>1. deployments[d] \in Deployment /\ deployments[d].env \in Env
    BY <1>1, <1>2 DEF Deployment
  <2>2. CASE /\ deployments' = [deployments EXCEPT ![d].status = "healthy", ![d].upstream = u]
             /\ UNCHANGED <<desiredStates, counters>>
    <3>1. [deployments[d] EXCEPT !.status = "healthy", !.upstream = u] \in Deployment
      BY <2>1 DEF Deployment, DeploymentStatus
    <3> QED
      BY <1>1, <1>2, <2>1, <2>2, <3>1
  <2>3. ASSUME NEW r \in RoutesOfHost(deployments[d].env, deployments[d].host),
               RetargetRoute(d, u, r),
               deployments' = [deployments EXCEPT ![d].status = "route_pending",
                                                  ![d].upstream = u, ![d].route = r.id]
        PROVE  /\ deployments' \in [1..counters'.deployment -> Deployment]
               /\ desiredStates' \in [Env -> DesiredState]
               /\ counters' \in Counters
               /\ counters'.command = counters.command
    <3>1. /\ r.id \in Nat
          /\ desiredStates' \in [Env -> DesiredState]
          /\ counters' \in Counters
          /\ counters'.command = counters.command
          /\ counters'.deployment = counters.deployment
      BY <1>2, <2>3, RetargetRouteType
    <3>2. [deployments[d] EXCEPT !.status = "route_pending", !.upstream = u, !.route = r.id]
            \in Deployment
      BY <2>1, <3>1 DEF Deployment, DeploymentStatus, RouteStatus
    <3>3. deployments' \in [1..counters.deployment -> Deployment]
      BY <1>1, <1>2, <2>1, <2>3, <3>2
    <3> QED
      BY <3>1, <3>3
  <2>4. CASE /\ WantsRoute(d) /\ AddRoute(d, u)
             /\ deployments' = [deployments EXCEPT ![d].status = "route_pending",
                                                   ![d].upstream = u, ![d].route = NextRoute]
    <3>1. /\ NextRoute \in Nat
          /\ desiredStates' \in [Env -> DesiredState]
          /\ counters' \in Counters
          /\ counters'.command = counters.command
          /\ counters'.deployment = counters.deployment
      BY <1>2, <2>4, AddRouteType
    <3>2. [deployments[d] EXCEPT !.status = "route_pending", !.upstream = u, !.route = NextRoute]
            \in Deployment
      BY <2>1, <3>1 DEF Deployment, DeploymentStatus, RouteStatus
    <3>3. deployments' \in [1..counters.deployment -> Deployment]
      BY <1>1, <1>2, <2>1, <2>4, <3>2
    <3> QED
      BY <3>1, <3>3
  <2> QED
    BY <1>2, <2>2, <2>3, <2>4 DEF DeploySucceeded
<1>3. CASE d \in DOMAIN deployments /\ StopSucceeded(d)
  <2>1. [deployments[d] EXCEPT !.status = "removed"] \in Deployment
    BY <1>1, <1>3 DEF Deployment, DeploymentStatus
  <2> QED
    BY <1>1, <1>3, <2>1 DEF StopSucceeded
<1>4. CASE d \in DOMAIN deployments /\ RemoveSucceeded(d)
  <2>1. deployments[d] \in Deployment /\ deployments[d].env \in Env
    BY <1>1, <1>4 DEF Deployment
  <2>2. [deployments[d] EXCEPT !.status = "removed", !.route = NoID] \in Deployment
    BY <2>1 DEF Deployment, DeploymentStatus, NoID
  <2>3. deployments' \in [1..counters.deployment -> Deployment]
    BY <1>1, <1>4, <2>1, <2>2 DEF RemoveSucceeded
  <2>4. CASE UNCHANGED <<desiredStates, counters>>
    BY <1>1, <2>3, <2>4
  <2>5. CASE RemoveRoute(deployments[d].env, deployments[d].route)
    BY <2>1, <2>3, <2>5, RemoveRouteType
  <2> QED
    BY <1>4, <2>4, <2>5 DEF RemoveSucceeded
<1>5. CASE UNCHANGED <<deployments, desiredStates, counters>>
  BY <1>1, <1>5
<1> QED
  BY <1>2, <1>3, <1>4, <1>5 DEF ApplySucceeded

LEMMA ReportCommandType ==
  ASSUME TypeOK, NEW c \in DOMAIN commands, NEW dIn \in Nat, NEW st \in FinalStatus,
         NEW u \in Upstream, ReportCommand(c, dIn, st, u)
  PROVE  TypeOK'
<1> DEFINE d == EffectiveDeployment(c, dIn)
           report == [command |-> c, deployment |-> d, status |-> st]
<1>1. d \in Nat /\ c \in Nat
  <2>1. c \in 1..counters.command /\ counters.command \in Nat
    BY DEF TypeOK, Counters
  <2>2. commands[c] \in Command
    BY <2>1 DEF TypeOK
  <2>3. commands[c].deployment \in Nat
    BY <2>2 DEF Command
  <2> QED
    BY <2>1, <2>3 DEF EffectiveDeployment
<1>2. report \in CommandReport
  BY <1>1 DEF CommandReport
<1>3. commandReports' \in Seq(CommandReport)
  <2>1. commandReports' = Append(commandReports, report)
    BY DEF ReportCommand
  <2> HIDE DEF report
  <2> QED
    BY <1>2, <2>1 DEF TypeOK
<1>4. commands' \in [1..counters.command -> Command]
  <2>1. [commands[c] EXCEPT !.status = st] \in Command
    BY DEF TypeOK, Command, CommandStatus
  <2> QED
    BY <2>1 DEF TypeOK, ReportCommand
<1>5. /\ deployments' \in [1..counters'.deployment -> Deployment]
      /\ desiredStates' \in [Env -> DesiredState]
      /\ counters' \in Counters
      /\ counters'.command = counters.command
  <2>1. CASE ApplySucceeded(c, d, u)
    BY <1>1, <2>1, ApplySucceededType
  <2>2. CASE ApplyFailed(c, d)
    <3>1. deployments' \in [1..counters.deployment -> Deployment]
      BY <2>2, ZenonT(30) DEF ApplyFailed, TypeOK, Deployment, DeploymentStatus
    <3> QED
      BY <2>2, <3>1 DEF ApplyFailed, TypeOK
  <2> QED
    BY <2>1, <2>2 DEF ReportCommand
<1> QED
  BY <1>3, <1>4, <1>5 DEF TypeOK, ReportCommand

LEMMA DesiredStateReportType ==
  ASSUME TypeOK, NEW e \in Env, NEW v \in ReportedVersion, NEW st \in GatewayStatus,
         ApplyDesiredStateReport(e, v, st)
  PROVE  TypeOK'
<1> DEFINE report == [env |-> e, version |-> v, stale |-> Stale(e, v),
                      invalid |-> Invalid(e, v), status |-> st]
<1>1. report \in DesiredStateReport
  <2>1. Stale(e, v) \in BOOLEAN /\ Invalid(e, v) \in BOOLEAN
    BY DEF Stale, Invalid
  <2> HIDE DEF Stale, Invalid
  <2> QED
    BY <2>1 DEF DesiredStateReport
<1>2. desiredStateReports' \in Seq(DesiredStateReport)
  <2>1. desiredStateReports' = Append(desiredStateReports, report)
    BY DEF ApplyDesiredStateReport
  <2> HIDE DEF report
  <2> QED
    BY <1>1, <2>1 DEF TypeOK
<1>3. deployments' \in [1..counters.deployment -> Deployment]
  <2>1. ASSUME NEW d \in 1..counters.deployment
        PROVE  [deployments[d] EXCEPT !.status = Settled(st)] \in Deployment
    BY <2>1 DEF TypeOK, Deployment, DeploymentStatus, RouteStatus, Settled
  <2>2. DOMAIN deployments = 1..counters.deployment
        /\ \A d \in 1..counters.deployment : deployments[d] \in Deployment
    BY DEF TypeOK
  <2> QED
    BY <2>1, <2>2 DEF ApplyDesiredStateReport
<1> QED
  BY <1>2, <1>3 DEF TypeOK, ApplyDesiredStateReport

LEMMA ResetType == Reset => TypeOK'
<1> SUFFICES ASSUME Reset PROVE TypeOK'
  OBVIOUS
<1>1. counters' \in Counters /\ counters'.command = 0 /\ counters'.deployment = 0
  BY DEF Reset, Counters
<1>2. /\ commands' \in [1..0 -> Command]
      /\ deployments' \in [1..0 -> Deployment]
  BY DEF Reset, EmptyMap
<1>3. desiredStates' \in [Env -> DesiredState]
  BY DEF Reset, DesiredState
<1>4. commandReports' \in Seq(CommandReport) /\ desiredStateReports' \in Seq(DesiredStateReport)
  BY DEF Reset
<1> QED
  BY <1>1, <1>2, <1>3, <1>4 DEF TypeOK

LEMMA TypeStep ==
  ASSUME TypeOK, [Next]_vars
  PROVE  TypeOK'
<1>1. ASSUME NEW e \in Env, NEW h \in Host \cup {NoHost}, NEW rr \in BOOLEAN, NEW a \in Agent,
             InitDeploy(e, h, rr, a)
      PROVE  TypeOK'
  BY <1>1, InitDeployType
<1>2. ASSUME NEW t \in CommandType, NEW d \in Nat, NEW a \in Agent, CreateCommand(t, d, a)
      PROVE  TypeOK'
  BY <1>2, CreateCommandType
<1>3. ASSUME NEW c \in DOMAIN commands, NEW a \in Agent, ClaimCommand(c, a)
      PROVE  TypeOK'
  BY <1>3, ClaimCommandType
<1>4. ASSUME NEW c \in DOMAIN commands, NEW a \in Agent, StartCommand(c, a)
      PROVE  TypeOK'
  BY <1>4, StartCommandType
<1>5. ASSUME NEW c \in DOMAIN commands, NEW dIn \in Nat, NEW st \in FinalStatus,
             NEW u \in Upstream, ReportCommand(c, dIn, st, u)
      PROVE  TypeOK'
  BY <1>5, ReportCommandType
<1>6. ASSUME NEW e \in Env, NEW v \in ReportedVersion, NEW st \in GatewayStatus,
             ApplyDesiredStateReport(e, v, st)
      PROVE  TypeOK'
  BY <1>6, DesiredStateReportType
<1>7. CASE Reset
  BY <1>7, ResetType
<1>8. CASE UNCHANGED vars
  BY <1>8 DEF vars, TypeOK
<1>9. /\ {StopType, RemoveType, CleanupType} \subseteq CommandType
      /\ 1..MaxDeployment \subseteq Nat /\ 0..MaxDeployment \subseteq Nat /\ NoID \in Nat
  BY BoundsAssumption DEF CommandType, NoID
<1> QED
  BY <1>1, <1>2, <1>3, <1>4, <1>5, <1>6, <1>7, <1>8, <1>9 DEF Next, Call

\* Every ID, status and reference the store holds stays in its type, whatever agents,
\* gateways and testers call, and in whatever order (all methods of package store).
THEOREM TypeCorrect == Spec => []TypeOK
<1>1. TypeOK /\ [Next]_vars => TypeOK'
  BY TypeStep
<1> QED
  BY InitTypeOK, <1>1, PTL DEF Spec

-----------------------------------------------------------------------------
(***************************************************************************)
(* The life of a command: only its target claims it, it never goes back,   *)
(* one report of it is accepted, and the store as a whole implements       *)
(* Dispatch.                                                               *)
(*                                                                         *)
(* The four follow from the six ways in which a step of the store can      *)
(* change the commands and their reports; CallSteps and CommandSteps show  *)
(* that there is no seventh.  That deployments and commands stay in pairs  *)
(* is shown from the calls themselves, for they change both.               *)
(***************************************************************************)

Created ==
  /\ NextCommand \in 1..MaxCommand
  /\ \E t \in CommandType, d \in 0..MaxDeployment, a \in Agent :
       commands' = Put(commands, NextCommand, NewCommand(t, d, a))
  /\ commandReports' = commandReports

Claimed ==
  /\ \E c \in DOMAIN commands, a \in Agent :
       /\ Claimable(c, a)
       /\ commands' = [commands EXCEPT ![c].status = "claimed", ![c].claimedBy = a]
  /\ commandReports' = commandReports

Started ==
  /\ \E c \in DOMAIN commands, a \in Agent :
       Startable(c, a) /\ commands' = [commands EXCEPT ![c].status = "running"]
  /\ commandReports' = commandReports

Reported ==
  \E c \in DOMAIN commands, d \in Nat, st \in FinalStatus :
    /\ Reportable(c)
    /\ commands' = [commands EXCEPT ![c].status = st]
    /\ commandReports' = Append(commandReports, [command |-> c, deployment |-> d, status |-> st])

Forgotten == commands' = EmptyMap /\ commandReports' = << >>

Untouched == commands' = commands /\ commandReports' = commandReports

LEMMA EffectiveType ==
  ASSUME TypeOK, NEW c \in DOMAIN commands, NEW dIn \in Nat
  PROVE  EffectiveDeployment(c, dIn) \in Nat
<1>1. commands[c] \in Command
  BY DEF TypeOK
<1>2. commands[c].deployment \in Nat
  BY <1>1 DEF Command
<1> QED
  BY <1>2 DEF EffectiveDeployment

LEMMA ReportStatus ==
  ASSUME TypeOK, NEW i \in DOMAIN commandReports
  PROVE  commandReports[i].status \in FinalStatus
<1>1. commandReports \in Seq(CommandReport)
  BY DEF TypeOK
<1>2. commandReports[i] \in CommandReport
  <2>1. \A s \in Seq(CommandReport) : \A j \in DOMAIN s : s[j] \in CommandReport
    OBVIOUS
  <2> QED
    BY <1>1, <2>1
<1> QED
  BY <1>2 DEF CommandReport

\* A step between two resets.
StoreCall == Call \/ UNCHANGED vars

LEMMA CallSteps ==
  ASSUME TypeOK, StoreCall
  PROVE  Created \/ Claimed \/ Started \/ Reported \/ Untouched
<1>1. /\ counters.command < MaxCommand => NextCommand \in 1..MaxCommand
      /\ counters.deployment < MaxDeployment => NextDeployment \in 0..MaxDeployment
  BY BoundsAssumption DEF TypeOK, Counters, NextCommand, NextDeployment
<1>2. ASSUME NEW e \in Env, NEW h \in Host \cup {NoHost}, NEW rr \in BOOLEAN, NEW a \in Agent,
             InitDeploy(e, h, rr, a)
      PROVE  Created
  BY <1>1, <1>2 DEF InitDeploy, Created, CommandType
<1>3. ASSUME NEW t \in CommandType, NEW d \in 0..MaxDeployment, NEW a \in Agent, CreateCommand(t, d, a)
      PROVE  Created
  BY <1>1, <1>3 DEF CreateCommand, Created
<1>4. ASSUME NEW c \in DOMAIN commands, NEW a \in Agent, ClaimCommand(c, a)
      PROVE  Claimed
  BY <1>4 DEF ClaimCommand, Claimed
<1>5. ASSUME NEW c \in DOMAIN commands, NEW a \in Agent, StartCommand(c, a)
      PROVE  Started
  BY <1>5 DEF StartCommand, Started
<1>6. ASSUME NEW c \in DOMAIN commands, NEW dIn \in Nat, NEW st \in FinalStatus,
             NEW u \in Upstream, ReportCommand(c, dIn, st, u)
      PROVE  Reported
  <2>1. EffectiveDeployment(c, dIn) \in Nat
    BY EffectiveType
  <2> QED
    BY <1>6, <2>1 DEF ReportCommand, Reported
<1>7. ASSUME NEW e \in Env, NEW v \in ReportedVersion, NEW st \in GatewayStatus,
             ApplyDesiredStateReport(e, v, st)
      PROVE  Untouched
  BY <1>7 DEF ApplyDesiredStateReport, Untouched
<1>8. CASE UNCHANGED vars
  BY <1>8 DEF vars, Untouched
<1>9. /\ {StopType, RemoveType, CleanupType} \subseteq CommandType
      /\ 1..MaxDeployment \subseteq 0..MaxDeployment
      /\ 0..MaxDeployment \subseteq Nat /\ NoID \in 0..MaxDeployment
  BY BoundsAssumption DEF CommandType, NoID
<1> QED
  BY <1>2, <1>3, <1>4, <1>5, <1>6, <1>7, <1>8, <1>9 DEF StoreCall, Call

LEMMA CommandSteps ==
  ASSUME TypeOK, [Next]_vars
  PROVE  Created \/ Claimed \/ Started \/ Reported \/ Forgotten \/ Untouched
BY CallSteps DEF StoreCall, Next, Reset, Forgotten

-----------------------------------------------------------------------------
Begun == {"running"} \cup FinalStatus

\* What no call of the store takes back: a command stays what it was created as, it stays
\* claimed by whom it was claimed, it stays begun and, once final, stays as it is.
LEMMA CommandKept ==
  ASSUME TypeOK, StoreCall, NEW c \in DOMAIN commands
  PROVE  /\ c \in DOMAIN commands'
         /\ commands'[c].type = commands[c].type
         /\ commands'[c].deployment = commands[c].deployment
         /\ commands'[c].target = commands[c].target
         /\ commands[c].status # "pending" =>
              /\ commands'[c].status # "pending"
              /\ commands'[c].claimedBy = commands[c].claimedBy
         /\ commands[c].status \in Begun => commands'[c].status \in Begun
         /\ commands[c].status \in FinalStatus => commands'[c].status = commands[c].status
<1>1. /\ commands \in [1..counters.command -> Command] /\ counters.command \in Nat
      /\ NextCommand \notin DOMAIN commands /\ commands[c] \in Command
  <2>1. commands \in [1..counters.command -> Command] /\ counters.command \in Nat
    BY DEF TypeOK, Counters
  <2> QED
    BY <2>1 DEF NextCommand
<1>2. CASE Created
  <2>1. PICK v : commands' = Put(commands, NextCommand, v)
    BY <1>2 DEF Created
  <2> QED
    BY <1>1, <2>1 DEF Put
<1>3. CASE Claimed
  BY <1>1, <1>3 DEF Claimed, Claimable, Begun, FinalStatus, Command
<1>4. CASE Started
  BY <1>1, <1>4 DEF Started, Startable, Begun, FinalStatus, Command
<1>5. CASE Reported
  BY <1>1, <1>5 DEF Reported, Reportable, Begun, FinalStatus, Command
<1>6. CASE Untouched
  BY <1>6 DEF Untouched
<1> QED
  BY <1>2, <1>3, <1>4, <1>5, <1>6, CallSteps

-----------------------------------------------------------------------------
(***************************************************************************)
(* The bound on the number of deployments bounds their IDs, also where a   *)
(* command names one.                                                      *)
(***************************************************************************)
DeploymentsBounded == DOMAIN deployments \subseteq 1..MaxDeployment

LEMMA DeploymentsBoundedStep ==
  ASSUME TypeOK, DeploymentsBounded, [Next]_vars
  PROVE  DeploymentsBounded'
<1>1. ASSUME NEW e \in Env, NEW h, NEW rr, NEW a, InitDeploy(e, h, rr, a)
      PROVE  DeploymentsBounded'
  <2>1. NextDeployment \in 1..MaxDeployment
    BY <1>1, BoundsAssumption DEF TypeOK, Counters, InitDeploy, NextDeployment
  <2>2. DOMAIN deployments' = DOMAIN deployments \cup {NextDeployment}
    BY <1>1 DEF InitDeploy, Put
  <2> QED
    BY <2>1, <2>2 DEF DeploymentsBounded
<1>2. ASSUME NEW c, NEW dIn, NEW st, NEW u, ReportCommand(c, dIn, st, u)
      PROVE  DOMAIN deployments' = DOMAIN deployments
  BY <1>2 DEF ReportCommand, ApplyFailed, ApplySucceeded, DeploySucceeded, StopSucceeded,
              RemoveSucceeded
<1>3. ASSUME NEW c, NEW a, StartCommand(c, a)
      PROVE  DOMAIN deployments' = DOMAIN deployments
  BY <1>3 DEF StartCommand
<1>4. ASSUME NEW e, NEW v, NEW st, ApplyDesiredStateReport(e, v, st)
      PROVE  DOMAIN deployments' = DOMAIN deployments
  BY <1>4 DEF ApplyDesiredStateReport
<1>5. CASE Reset
  BY <1>5 DEF Reset, EmptyMap, DeploymentsBounded
<1>6. CASE deployments' = deployments
  BY <1>6 DEF DeploymentsBounded
<1> QED
  BY <1>1, <1>2, <1>3, <1>4, <1>5, <1>6
     DEF Next, Call, CreateCommand, ClaimCommand, vars, DeploymentsBounded

DeploymentsInRange ==
  \A c \in DOMAIN commands : commands[c].deployment \in 0..MaxDeployment

LEMMA RangeStep ==
  ASSUME TypeOK, DeploymentsInRange, [Next]_vars
  PROVE  DeploymentsInRange'
<1>1. /\ commands \in [1..counters.command -> Command]
      /\ NextCommand \notin DOMAIN commands
  BY DEF TypeOK, Counters, NextCommand
<1>2. CASE Created
  BY <1>1, <1>2 DEF Created, Put, NewCommand, DeploymentsInRange
<1>3. CASE Claimed \/ Started \/ Reported
  <2>1. /\ DOMAIN commands' = DOMAIN commands
        /\ \A x \in DOMAIN commands : commands'[x].deployment = commands[x].deployment
    <3>1. \A x \in DOMAIN commands : commands[x] \in Command
      BY <1>1
    <3>2. CASE Claimed
      BY <3>1, <3>2 DEF Claimed, Command
    <3>3. CASE Started
      BY <3>1, <3>3 DEF Started, Command
    <3>4. CASE Reported
      BY <3>1, <3>4 DEF Reported, Command
    <3> QED
      BY <1>3, <3>2, <3>3, <3>4
  <2> QED
    BY <2>1 DEF DeploymentsInRange
<1>4. CASE Untouched
  BY <1>4 DEF Untouched, DeploymentsInRange
<1>5. CASE Forgotten
  BY <1>5 DEF Forgotten, EmptyMap, DeploymentsInRange
<1> QED
  BY <1>2, <1>3, <1>4, <1>5, CommandSteps
-----------------------------------------------------------------------------
LEMMA ClaimedByTargetStep ==
  ASSUME TypeOK, ClaimedByTarget, [Next]_vars
  PROVE  ClaimedByTarget'
<1>1. /\ commands \in [1..counters.command -> Command] /\ counters.command \in Nat
      /\ NextCommand = counters.command + 1
  BY DEF TypeOK, Counters, NextCommand
<1>2. CASE Created
  <2>1. PICK t \in CommandType, d \in 0..MaxDeployment, a \in Agent :
          commands' = Put(commands, NextCommand, NewCommand(t, d, a))
    BY <1>2 DEF Created
  <2> QED
    BY <1>1, <2>1 DEF ClaimedByTarget, Put, NewCommand
<1>3. CASE Claimed
  BY <1>1, <1>3 DEF Claimed, Claimable, ClaimedByTarget, Command
<1>4. CASE Started
  BY <1>1, <1>4 DEF Started, Startable, ClaimedByTarget, Command
<1>5. CASE Reported
  BY <1>1, <1>5 DEF Reported, Reportable, ClaimedByTarget, Command, FinalStatus
<1>6. CASE Forgotten
  BY <1>6 DEF Forgotten, EmptyMap, ClaimedByTarget
<1>7. CASE Untouched
  BY <1>7 DEF Untouched, ClaimedByTarget
<1> QED
  BY <1>2, <1>3, <1>4, <1>5, <1>6, <1>7, CommandSteps

\* Whoever asks, a command is claimed by the agent it was created for and by no other,
\* and it carries a claimer exactly from its claim on (ClaimCommand, StartCommand).
THEOREM OnlyTargetClaims == Spec => []ClaimedByTarget
<1>1. Init => ClaimedByTarget
  BY DEF Init, EmptyMap, ClaimedByTarget
<1>2. TypeOK /\ ClaimedByTarget /\ [Next]_vars => ClaimedByTarget'
  BY ClaimedByTargetStep
<1> QED
  BY <1>1, <1>2, TypeCorrect, PTL DEF Spec

-----------------------------------------------------------------------------
LEMMA OneReportStep ==
  ASSUME TypeOK, OneReportPerCommand, [Next]_vars
  PROVE  OneReportPerCommand'
<1>1. /\ commands \in [1..counters.command -> Command] /\ counters.command \in Nat
      /\ NextCommand = counters.command + 1 /\ NextCommand \notin DOMAIN commands
      /\ commandReports \in Seq(CommandReport)
  BY DEF TypeOK, Counters, NextCommand
<1>2. CASE Created
  <2>1. PICK t \in CommandType, d \in 0..MaxDeployment, a \in Agent :
          commands' = Put(commands, NextCommand, NewCommand(t, d, a))
    BY <1>2 DEF Created
  <2>2. /\ DOMAIN commands' = DOMAIN commands \cup {NextCommand}
        /\ \A c \in DOMAIN commands : commands'[c] = commands[c]
        /\ commands'[NextCommand].status = "pending"
    BY <1>1, <2>1 DEF Put, NewCommand
  <2> QED
    BY <1>1, <1>2, <2>2 DEF OneReportPerCommand, Created, FinalStatus
<1>3. CASE Claimed \/ Started
  <2>1. /\ DOMAIN commands' = DOMAIN commands
        /\ commandReports' = commandReports
        /\ \A c \in DOMAIN commands :
             \/ commands'[c].status = commands[c].status
             \/ commands[c].status \notin FinalStatus /\ commands'[c].status \notin FinalStatus
    BY <1>1, <1>3 DEF Claimed, Claimable, Started, Startable, FinalStatus, Command
  <2>2. \A i \in DOMAIN commandReports : commandReports[i].status \in FinalStatus
    BY ReportStatus
  <2> QED
    BY <2>1, <2>2 DEF OneReportPerCommand
<1>4. CASE Reported
  <2>1. PICK c \in DOMAIN commands, d \in Nat, st \in FinalStatus :
          /\ Reportable(c)
          /\ commands' = [commands EXCEPT ![c].status = st]
          /\ commandReports' =
               Append(commandReports, [command |-> c, deployment |-> d, status |-> st])
    BY <1>4 DEF Reported
  <2> DEFINE n == Len(commandReports)
             r == [command |-> c, deployment |-> d, status |-> st]
  <2>2. /\ n \in Nat /\ DOMAIN commandReports = 1..n
        /\ DOMAIN commandReports' = 1..(n + 1)
        /\ commandReports'[n + 1].command = c /\ commandReports'[n + 1].status = st
        /\ \A i \in 1..n : commandReports'[i] = commandReports[i]
    <3>1. r.command = c /\ r.status = st
      OBVIOUS
    <3>2. commandReports' = Append(commandReports, r)
      BY <2>1
    <3> HIDE DEF r
    <3> QED
      BY <1>1, <3>1, <3>2
  <2>3. /\ DOMAIN commands' = DOMAIN commands
        /\ commands'[c].status = st
        /\ \A x \in DOMAIN commands \ {c} : commands'[x] = commands[x]
    BY <1>1, <2>1 DEF Command
  <2>4. \A i \in 1..n : commandReports[i].command # c
    <3>1. commands[c].status \notin FinalStatus
      BY <2>1 DEF Reportable, FinalStatus
    <3>2. \A i \in 1..n : commandReports[i].status \in FinalStatus
      BY <2>2, ReportStatus
    <3> QED
      BY <2>2, <3>1, <3>2 DEF OneReportPerCommand
  <2> HIDE DEF n, r
  <2>5. \A i, j \in 1..(n + 1) :
          commandReports'[i].command = commandReports'[j].command => i = j
    <3> SUFFICES ASSUME NEW i \in 1..(n + 1), NEW j \in 1..(n + 1),
                        commandReports'[i].command = commandReports'[j].command
                 PROVE  i = j
      OBVIOUS
    <3>1. CASE i \in 1..n /\ j \in 1..n
      BY <2>2, <3>1 DEF OneReportPerCommand
    <3>2. CASE i \notin 1..n \/ j \notin 1..n
      BY <2>2, <2>4, <3>2
    <3> QED
      BY <3>1, <3>2
  <2>6. \A i \in 1..(n + 1) :
          /\ commandReports'[i].command \in DOMAIN commands
          /\ commands'[commandReports'[i].command].status = commandReports'[i].status
    <3> SUFFICES ASSUME NEW i \in 1..(n + 1)
                 PROVE  /\ commandReports'[i].command \in DOMAIN commands
                        /\ commands'[commandReports'[i].command].status
                             = commandReports'[i].status
      OBVIOUS
    <3>1. CASE i \in 1..n
      BY <2>2, <2>3, <2>4, <3>1 DEF OneReportPerCommand
    <3>2. CASE i = n + 1
      BY <2>2, <2>3, <3>2
    <3> QED
      BY <2>2, <3>1, <3>2
  <2>7. \A x \in DOMAIN commands : commands'[x].status \in FinalStatus =>
          \E i \in 1..(n + 1) : commandReports'[i].command = x
    <3> SUFFICES ASSUME NEW x \in DOMAIN commands, commands'[x].status \in FinalStatus
                 PROVE  \E i \in 1..(n + 1) : commandReports'[i].command = x
      OBVIOUS
    <3>1. CASE x = c
      BY <2>2, <3>1
    <3>2. CASE x # c
      <4>1. PICK i \in 1..n : commandReports[i].command = x
        BY <2>2, <2>3, <3>2 DEF OneReportPerCommand
      <4> QED
        BY <2>2, <4>1
    <3> QED
      BY <3>1, <3>2
  <2> QED
    BY <2>2, <2>3, <2>5, <2>6, <2>7 DEF OneReportPerCommand
<1>5. CASE Forgotten
  BY <1>5 DEF Forgotten, EmptyMap, OneReportPerCommand
<1>6. CASE Untouched
  BY <1>6 DEF Untouched, OneReportPerCommand
<1> QED
  BY <1>2, <1>3, <1>4, <1>5, <1>6, CommandSteps

\* However often a report is repeated, one report of a command is stored and decides its
\* final status, and no command is final without one (ReportCommand).
THEOREM ReportedOnce == Spec => []OneReportPerCommand
<1>1. Init => OneReportPerCommand
  BY DEF Init, EmptyMap, OneReportPerCommand
<1>2. TypeOK /\ OneReportPerCommand /\ [Next]_vars => OneReportPerCommand'
  BY OneReportStep
<1> QED
  BY <1>1, <1>2, TypeCorrect, PTL DEF Spec

-----------------------------------------------------------------------------
LEMMA ProgressStep ==
  ASSUME TypeOK, [Next]_vars, ~Cleared', NEW c \in DOMAIN commands
  PROVE  /\ c \in DOMAIN commands'
         /\ \/ commands'[c].status = commands[c].status
            \/ Progress[commands'[c].status] > Progress[commands[c].status]
         /\ commands'[c].target = commands[c].target
         /\ commands'[c].type = commands[c].type
         /\ commands'[c].deployment = commands[c].deployment
<1>1. /\ commands \in [1..counters.command -> Command] /\ counters.command \in Nat
      /\ NextCommand \notin DOMAIN commands
  BY DEF TypeOK, Counters, NextCommand
<1>2. /\ Progress["pending"] = 0 /\ Progress["claimed"] = 1 /\ Progress["running"] = 2
      /\ Progress["succeeded"] = 3 /\ Progress["failed"] = 3
  BY DEF Progress
<1>3. CASE Created
  BY <1>1, <1>3 DEF Created, Put
<1>4. CASE Claimed
  BY <1>1, <1>2, <1>4 DEF Claimed, Claimable, Command
<1>5. CASE Started
  BY <1>1, <1>2, <1>5 DEF Started, Startable, Command
<1>6. CASE Reported
  BY <1>1, <1>2, <1>6 DEF Reported, Reportable, Command, FinalStatus
<1>7. CASE Forgotten
  BY <1>7 DEF Forgotten, EmptyMap, Cleared
<1>8. CASE Untouched
  BY <1>8 DEF Untouched
<1> QED
  BY <1>3, <1>4, <1>5, <1>6, <1>7, <1>8, CommandSteps

\* Until a reset a command is never lost, never changes hands or meaning and never goes
\* back to an earlier status (commands.go).
THEOREM NoWayBack == Spec => CommandProgress
<1>1. TypeOK /\ [Next]_vars =>
        (~Cleared' => \A c \in DOMAIN commands :
           /\ c \in DOMAIN commands'
           /\ \/ commands'[c].status = commands[c].status
              \/ Progress[commands'[c].status] > Progress[commands[c].status]
           /\ commands'[c].target = commands[c].target
           /\ commands'[c].type = commands[c].type
           /\ commands'[c].deployment = commands[c].deployment)
  BY ProgressStep
<1> QED
  BY <1>1, TypeCorrect, PTL DEF Spec, CommandProgress

-----------------------------------------------------------------------------
\* Neither side of a pair changes what it says of the other, and no unpaired deployment
\* or DEPLOY_APPLICATION command comes in.
LinksKept ==
  /\ DOMAIN deployments' = DOMAIN deployments
  /\ \A d \in DOMAIN deployments : /\ deployments'[d].command = deployments[d].command
                                   /\ deployments'[d].target = deployments[d].target
  /\ DOMAIN commands \subseteq DOMAIN commands'
  /\ \A c \in DOMAIN commands : /\ commands'[c].type = commands[c].type
                                /\ commands'[c].deployment = commands[c].deployment
                                /\ commands'[c].target = commands[c].target
  /\ \A c \in DOMAIN commands' \ DOMAIN commands : commands'[c].type # DeployType

LEMMA ReportKeepsLinks ==
  ASSUME TypeOK, NEW c \in DOMAIN commands, NEW dIn, NEW st, NEW u, ReportCommand(c, dIn, st, u)
  PROVE  LinksKept
<1>1. /\ \A d \in DOMAIN deployments : deployments[d] \in Deployment
      /\ \A x \in DOMAIN commands : commands[x] \in Command
  BY DEF TypeOK
<1>2. /\ DOMAIN commands' = DOMAIN commands
      /\ \A x \in DOMAIN commands : /\ commands'[x].type = commands[x].type
                                    /\ commands'[x].deployment = commands[x].deployment
                                    /\ commands'[x].target = commands[x].target
  BY <1>1 DEF ReportCommand, Command
<1>3. /\ DOMAIN deployments' = DOMAIN deployments
      /\ \A d \in DOMAIN deployments : /\ deployments'[d].command = deployments[d].command
                                       /\ deployments'[d].target = deployments[d].target
  <2> DEFINE d == EffectiveDeployment(c, dIn)
             Kept == /\ DOMAIN deployments' = DOMAIN deployments
                     /\ \A x \in DOMAIN deployments :
                          /\ deployments'[x].command = deployments[x].command
                          /\ deployments'[x].target = deployments[x].target
  <2>1. CASE ApplyFailed(c, d)
    BY <1>1, <2>1 DEF ApplyFailed, Deployment
  <2>2. CASE DeploySucceeded(d, u)
    <3>1. CASE deployments' = [deployments EXCEPT ![d].status = "healthy", ![d].upstream = u]
      BY <1>1, <3>1 DEF Deployment
    <3>2. ASSUME NEW i, deployments' = [deployments EXCEPT ![d].status = "route_pending",
                                                           ![d].upstream = u, ![d].route = i]
          PROVE  Kept
      BY <1>1, <3>2 DEF Deployment
    <3> QED
      BY <2>2, <3>1, <3>2 DEF DeploySucceeded
  <2>3. CASE StopSucceeded(d) \/ RemoveSucceeded(d)
    BY <1>1, <2>3 DEF StopSucceeded, RemoveSucceeded, Deployment
  <2>4. CASE deployments' = deployments
    BY <2>4
  <2> HIDE DEF d, Kept
  <2>5. Kept
    BY <2>1, <2>2, <2>3, <2>4 DEF ReportCommand, ApplySucceeded, d, Kept
  <2> QED
    BY <2>5 DEF Kept
<1> QED
  BY <1>2, <1>3 DEF LinksKept

LEMMA DeployPairsStep ==
  ASSUME TypeOK, DeployPairs, [Next]_vars
  PROVE  DeployPairs'
<1>1. /\ commands \in [1..counters.command -> Command] /\ counters.command \in Nat
      /\ deployments \in [1..counters.deployment -> Deployment] /\ counters.deployment \in Nat
      /\ NextCommand \notin DOMAIN commands /\ NextDeployment \notin DOMAIN deployments
  BY DEF TypeOK, Counters, NextCommand, NextDeployment
<1>2. CASE LinksKept
  BY <1>2 DEF LinksKept, DeployPairs
<1>3. ASSUME NEW e, NEW h, NEW rr, NEW a, InitDeploy(e, h, rr, a)
      PROVE  DeployPairs'
  <2>1. /\ DOMAIN deployments' = DOMAIN deployments \cup {NextDeployment}
        /\ \A d \in DOMAIN deployments : deployments'[d] = deployments[d]
        /\ deployments'[NextDeployment].command = NextCommand
        /\ deployments'[NextDeployment].target = a
    BY <1>1, <1>3 DEF InitDeploy, Put
  <2>2. /\ DOMAIN commands' = DOMAIN commands \cup {NextCommand}
        /\ \A c \in DOMAIN commands : commands'[c] = commands[c]
        /\ commands'[NextCommand].type = DeployType
        /\ commands'[NextCommand].deployment = NextDeployment
        /\ commands'[NextCommand].target = a
    BY <1>1, <1>3 DEF InitDeploy, Put, NewCommand
  <2> QED
    BY <1>1, <2>1, <2>2 DEF DeployPairs
<1>4. ASSUME NEW t \in {StopType, RemoveType, CleanupType}, NEW d, NEW a, CreateCommand(t, d, a)
      PROVE  LinksKept
  <2>1. /\ DOMAIN commands' = DOMAIN commands \cup {NextCommand}
        /\ \A c \in DOMAIN commands : commands'[c] = commands[c]
        /\ commands'[NextCommand].type = t
    BY <1>1, <1>4 DEF CreateCommand, Put, NewCommand
  <2>2. deployments' = deployments /\ t # DeployType
    BY <1>4 DEF CreateCommand, StopType, RemoveType, CleanupType, DeployType
  <2> QED
    BY <2>1, <2>2 DEF LinksKept
<1>5. ASSUME NEW c \in DOMAIN commands, NEW a, ClaimCommand(c, a)
      PROVE  LinksKept
  BY <1>1, <1>5 DEF ClaimCommand, LinksKept, Command
<1>6. ASSUME NEW c \in DOMAIN commands, NEW a, StartCommand(c, a)
      PROVE  LinksKept
  BY <1>1, <1>6 DEF StartCommand, LinksKept, Command, Deployment
<1>7. ASSUME NEW c \in DOMAIN commands, NEW dIn, NEW st, NEW u, ReportCommand(c, dIn, st, u)
      PROVE  LinksKept
  BY <1>7, ReportKeepsLinks
<1>8. ASSUME NEW e, NEW v, NEW st, ApplyDesiredStateReport(e, v, st)
      PROVE  LinksKept
  BY <1>1, <1>8 DEF ApplyDesiredStateReport, LinksKept, Deployment
<1>9. CASE Reset
  BY <1>9 DEF Reset, EmptyMap, DeployPairs
<1>10. CASE UNCHANGED vars
  BY <1>10 DEF vars, DeployPairs
<1> QED
  BY <1>2, <1>3, <1>4, <1>5, <1>6, <1>7, <1>8, <1>9, <1>10 DEF Next, Call

\* A deployment never loses the command that deploys it and the command never speaks of
\* another one, whatever is created, reported or settled later (InitDeploy).
THEOREM PairsStay == Spec => []DeployPairs
<1>1. Init => DeployPairs
  BY DEF Init, EmptyMap, DeployPairs
<1>2. TypeOK /\ DeployPairs /\ [Next]_vars => DeployPairs'
  BY DeployPairsStep
<1> QED
  BY <1>1, <1>2, TypeCorrect, PTL DEF Spec

-----------------------------------------------------------------------------
(***************************************************************************)
(* The store implements Dispatch.                                          *)
(***************************************************************************)
\* The mapped results are a sequence as long as the one they are taken from.
LEMMA ResultsSequence ==
  ASSUME TypeOK
  PROVE  /\ Len(commandReports) \in Nat
         /\ DOMAIN commandReports = 1..Len(commandReports)
         /\ Results \in Seq({Results[i] : i \in 1..Len(commandReports)})
         /\ Len(Results) = Len(commandReports)
<1>1. commandReports \in Seq(CommandReport)
  BY DEF TypeOK
<1>2. Len(commandReports) \in Nat /\ DOMAIN commandReports = 1..Len(commandReports)
  BY <1>1, LenProperties
<1> DEFINE n == Len(commandReports)
           e(i) == [command |-> commandReports[i].command, status |-> commandReports[i].status]
           S == {Results[i] : i \in 1..n}
<1>3. Results = [i \in 1..n |-> e(i)]
  BY <1>2 DEF Results
<1>4. Results \in Seq(S)
  <2>1. \A i \in 1..n : e(i) \in S
    BY <1>3
  <2>2. [i \in 1..n |-> e(i)] \in Seq(S)
    <3> HIDE DEF e, S, n
    <3> QED
      BY <1>2, <2>1, IsASeq DEF n
  <2> QED
    BY <1>3, <2>2
<1>5. Len(Results) = n
  <2>1. DOMAIN Results = 1..n
    BY <1>3
  <2> HIDE DEF n, S
  <2> QED
    BY <1>2, <1>4, <2>1, LenProperties DEF n
<1> QED
  BY <1>2, <1>4, <1>5

\* The bound on the number of commands bounds their IDs.
IDsBounded == DOMAIN commands \subseteq 1..MaxCommand

LEMMA IDsBoundedStep ==
  ASSUME TypeOK, IDsBounded, [Next]_vars
  PROVE  IDsBounded'
<1>1. CASE Created
  BY <1>1 DEF Created, Put, IDsBounded
<1>2. CASE Claimed \/ Started \/ Reported
  BY <1>2 DEF Claimed, Started, Reported, IDsBounded
<1>3. CASE Forgotten
  BY <1>3 DEF Forgotten, EmptyMap, IDsBounded
<1>4. CASE Untouched
  BY <1>4 DEF Untouched, IDsBounded
<1> QED
  BY <1>1, <1>2, <1>3, <1>4, CommandSteps

LEMMA DispatchInit == Init => D!Init
BY DEF Init, EmptyMap, D!Init, Targets, Taken, Results

LEMMA DispatchStep ==
  ASSUME TypeOK, ClaimedByTarget, OneReportPerCommand, IDsBounded, [Next]_vars
  PROVE  [D!Next]_(D!vars)
<1>1. /\ commands \in [1..counters.command -> Command] /\ counters.command \in Nat
      /\ NextCommand \notin DOMAIN commands
      /\ commandReports \in Seq(CommandReport)
  BY DEF TypeOK, Counters, NextCommand
<1>2. CASE Created
  <2>1. PICK t \in CommandType, d \in 0..MaxDeployment, a \in Agent :
          commands' = Put(commands, NextCommand, NewCommand(t, d, a))
    BY <1>2 DEF Created
  <2>2. /\ DOMAIN commands' = DOMAIN commands \cup {NextCommand}
        /\ \A c \in DOMAIN commands : commands'[c] = commands[c]
        /\ commands'[NextCommand].target = a /\ commands'[NextCommand].claimedBy = NoAgent
    BY <1>1, <2>1 DEF Put, NewCommand
  <2>3. Targets' = [x \in DOMAIN Targets \cup {NextCommand} |->
                      IF x = NextCommand THEN a ELSE Targets[x]]
    BY <1>1, <2>2 DEF Targets
  <2>4. Taken' = Taken
    BY <1>1, <2>2, NamesAssumption DEF Taken
  <2>5. Results' = Results
    BY <1>2 DEF Created, Results
  <2>6. NextCommand \in 1..MaxCommand /\ NextCommand \notin DOMAIN Targets
    BY <1>1, <1>2 DEF Created, Targets
  <2>7. D!Issue(NextCommand, a)
    BY <2>3, <2>4, <2>5, <2>6 DEF D!Issue
  <2> QED
    BY <2>6, <2>7 DEF D!Next
<1>3. CASE Claimed
  <2>1. PICK c \in DOMAIN commands, a \in Agent :
          /\ Claimable(c, a)
          /\ commands' = [commands EXCEPT ![c].status = "claimed", ![c].claimedBy = a]
    BY <1>3 DEF Claimed
  <2>2. /\ DOMAIN commands' = DOMAIN commands
        /\ \A x \in DOMAIN commands : commands'[x].target = commands[x].target
        /\ \A x \in DOMAIN commands \ {c} : commands'[x].claimedBy = commands[x].claimedBy
        /\ commands[c].target = a /\ commands'[c].claimedBy = a
        /\ commands[c].claimedBy = NoAgent
    BY <1>1, <2>1 DEF Claimable, ClaimedByTarget, Command
  <2>3. Targets' = Targets
    BY <2>2 DEF Targets
  <2>4. Taken' = Taken \cup {c} /\ c \in DOMAIN Targets \ Taken
    BY <2>1, <2>2, NamesAssumption DEF Taken, Targets
  <2>5. Results' = Results
    BY <1>3 DEF Claimed, Results
  <2>6. D!Take(c)
    BY <2>3, <2>4, <2>5 DEF D!Take
  <2> QED
    BY <2>4, <2>6 DEF D!Next
<1>4. CASE Started
  <2>1. /\ DOMAIN commands' = DOMAIN commands
        /\ \A x \in DOMAIN commands : /\ commands'[x].target = commands[x].target
                                      /\ commands'[x].claimedBy = commands[x].claimedBy
    BY <1>1, <1>4 DEF Started, Startable, Command
  <2> QED
    BY <1>4, <2>1 DEF Started, Targets, Taken, Results, D!vars
<1>5. CASE Reported
  <2>1. PICK c \in DOMAIN commands, d \in Nat, st \in FinalStatus :
          /\ Reportable(c)
          /\ commands' = [commands EXCEPT ![c].status = st]
          /\ commandReports' =
               Append(commandReports, [command |-> c, deployment |-> d, status |-> st])
    BY <1>5 DEF Reported
  <2> DEFINE r == [command |-> c, deployment |-> d, status |-> st]
             res == [command |-> c, status |-> st]
             n == Len(commandReports)
  <2>2. /\ DOMAIN commands' = DOMAIN commands
        /\ \A x \in DOMAIN commands : /\ commands'[x].target = commands[x].target
                                      /\ commands'[x].claimedBy = commands[x].claimedBy
    BY <1>1, <2>1 DEF Command
  <2>3. Targets' = Targets /\ Taken' = Taken
    BY <2>2 DEF Targets, Taken
  <2>4. c \in Taken
    BY <1>1, <2>1 DEF Reportable, ClaimedByTarget, Taken, Command
  <2>5. Results' = Append(Results, res)
    <3>1. /\ n \in Nat /\ DOMAIN commandReports = 1..n
          /\ Results \in Seq({Results[i] : i \in 1..n}) /\ Len(Results) = n
      BY ResultsSequence
    <3>2. /\ DOMAIN commandReports' = 1..(n + 1)
          /\ commandReports'[n + 1] = r
          /\ \A i \in 1..n : commandReports'[i] = commandReports[i]
      <4> HIDE DEF r
      <4>1. commandReports' = Append(commandReports, r)
        BY <2>1 DEF r
      <4> QED
        BY <1>1, <4>1, AppendProperties DEF n
    <3>3. /\ DOMAIN Results' = 1..(n + 1)
          /\ Results'[n + 1] = res
          /\ \A i \in 1..n : Results'[i] = Results[i]
      BY <3>1, <3>2 DEF Results
    <3>4. /\ DOMAIN Append(Results, res) = 1..(n + 1)
          /\ Append(Results, res)[n + 1] = res
          /\ \A i \in 1..n : Append(Results, res)[i] = Results[i]
      <4> DEFINE E == {Results[i] : i \in 1..n} \cup {res}
      <4>1. Results \in Seq(E) /\ res \in E
        BY <3>1
      <4> HIDE DEF E, res
      <4> QED
        BY <3>1, <4>1, AppendProperties
    <3> QED
      <4>1. /\ Results' = [i \in 1..(n + 1) |-> Results'[i]]
            /\ Append(Results, res) = [i \in 1..(n + 1) |-> Append(Results, res)[i]]
        BY <3>3, <3>4 DEF Results
      <4>2. \A i \in 1..(n + 1) : Results'[i] = Append(Results, res)[i]
        BY <3>1, <3>3, <3>4
      <4> QED
        BY <4>1, <4>2
  <2>6. ~D!HasResult(c)
    <3>1. commands[c].status \notin FinalStatus
      BY <2>1 DEF Reportable, FinalStatus
    <3>2. \A i \in DOMAIN commandReports : commandReports[i].command # c
      BY <3>1, ReportStatus DEF OneReportPerCommand
    <3> QED
      BY <3>2 DEF D!HasResult, Results
  <2>7. res \in D!Result
    <3>1. c \in 1..MaxCommand
      BY DEF IDsBounded
    <3> QED
      BY <2>1, <3>1 DEF D!Result, FinalStatus
  <2>8. D!Finish(res)
    BY <2>3, <2>4, <2>5, <2>6 DEF D!Finish
  <2> QED
    BY <2>7, <2>8 DEF D!Next
<1>6. CASE Forgotten
  <2>1. Targets' = [x \in {} |-> x] /\ Taken' = {} /\ Results' = << >>
    BY <1>6 DEF Forgotten, EmptyMap, Targets, Taken, Results
  <2> QED
    BY <2>1 DEF D!Forget, D!Next
<1>7. CASE Untouched
  BY <1>7 DEF Untouched, Targets, Taken, Results, D!vars
<1> QED
  BY <1>2, <1>3, <1>4, <1>5, <1>6, <1>7, CommandSteps

\* Whatever else happens in the store, as far as commands go it behaves like Dispatch:
\* issued to one agent, taken by that agent only, ended once after that.
THEOREM StoreImplementsDispatch == Spec => ImplementsDispatch
<1>1. Init => IDsBounded
  BY DEF Init, EmptyMap, IDsBounded
<1>2. TypeOK /\ IDsBounded /\ [Next]_vars => IDsBounded'
  BY IDsBoundedStep
<1>3. TypeOK /\ ClaimedByTarget /\ OneReportPerCommand /\ IDsBounded /\ [Next]_vars
        => [D!Next]_(D!vars)
  BY DispatchStep
<1> QED
  BY <1>1, <1>2, <1>3, DispatchInit, TypeCorrect, OnlyTargetClaims, ReportedOnce, PTL
     DEF Spec, ImplementsDispatch, D!Spec

=============================================================================
