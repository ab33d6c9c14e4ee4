------------------------------- MODULE Store -------------------------------
(***************************************************************************)
(* Package internal/store: the in-memory state of the Fake Platform API    *)
(* and the methods that change it.  Every method runs under Store.mu, so   *)
(* each is one atomic action; the methods that only read are not actions.  *)
(*                                                                         *)
(* The methods trust their callers: they are modelled for every input a    *)
(* caller may pass, whatever an earlier critical section of the same HTTP  *)
(* handler has seen.  A call that returns an error and changes nothing is  *)
(* a stuttering step.                                                      *)
(*                                                                         *)
(* IDs ("cmd-001", "dep-001", "route-001") are the counters they print.    *)
(* The agent table (agents.go) is a component of its own: here an agent is *)
(* a name that commands carry.                                             *)
(***************************************************************************)
EXTENDS Integers, Sequences

CONSTANTS
  Agent,            \* agent IDs that commands are sent to
  NoAgent,          \* the empty Command.ClaimedBy
  Env,              \* environments
  Host,             \* host names asked for by deployments
  NoHost,           \* the empty Deployment.Host
  Upstream,         \* "runtime_private_ip:host_port" values
  NoUpstream,       \* the upstream of a deployment nobody has reported
  ReportedVersion,  \* versions a gateway may put in a report
  MaxCommand,       \* bound: commands created between two resets
  MaxDeployment,    \* bound: deployments created between two resets
  MaxGatewayReport  \* bound: desired-state reports between two resets

ASSUME NamesAssumption ==
  /\ NoAgent \notin Agent
  /\ NoHost \notin Host
  /\ NoUpstream \in Upstream

ASSUME BoundsAssumption ==
  /\ MaxCommand \in Nat
  /\ MaxDeployment \in Nat
  /\ MaxGatewayReport \in Nat
  /\ ReportedVersion \subseteq Int

VARIABLES
  commands,             \* Store.Commands: command ID -> Command
  deployments,          \* Store.Deployments: deployment ID -> Deployment
  commandReports,       \* Store.CommandReports
  desiredStates,        \* Store.DesiredStates: environment -> DesiredState
  desiredStateReports,  \* Store.DesiredStateReports
  counters              \* Store.Counters

vars == <<commands, deployments, commandReports, desiredStates,
          desiredStateReports, counters>>

-----------------------------------------------------------------------------
NoID == 0   \* the empty string in a field that holds an ID

DeployType  == "DEPLOY_APPLICATION"
StopType    == "STOP_APPLICATION"
RemoveType  == "REMOVE_DEPLOYMENT"
CleanupType == "CLEANUP_DRAINING"

CommandType   == {DeployType, StopType, RemoveType, CleanupType}
FinalStatus   == {"succeeded", "failed"}
CommandStatus == {"pending", "claimed", "running"} \cup FinalStatus

RouteStatus == {"route_pending", "route_active", "route_failed"}
DeploymentStatus ==
  {"command_created", "deploying", "healthy", "failed", "removed"} \cup RouteStatus

\* Outcome of a gateway's attempt; anything else is stored and ignored.
GatewayStatus == {"applied", "failed", "other"}

Command == [type       : CommandType,
            deployment : Nat,
            target     : Agent,
            status     : CommandStatus,
            claimedBy  : Agent \cup {NoAgent}]

Deployment == [env           : Env,
               host          : Host \cup {NoHost},
               requiresRoute : BOOLEAN,
               target        : Agent,
               command       : Nat,
               status        : DeploymentStatus,
               upstream      : Upstream,
               route         : Nat]

Route == [id : Nat, host : Host, upstream : Upstream, deployment : Nat]

\* The order of the routes in the JSON array carries no meaning: a set.
\* A missing map entry and version 0 without routes are the same answer.
DesiredState == [version : Nat, routes : SUBSET Route]

CommandReport == [command : Nat, deployment : Nat, status : FinalStatus]

DesiredStateReport == [env : Env, version : ReportedVersion, stale : BOOLEAN,
                       invalid : BOOLEAN, status : GatewayStatus]

Counters == [command : Nat, deployment : Nat, route : Nat, version : [Env -> Nat]]

EmptyMap == [x \in {} |-> x]

Init ==
  /\ commands = EmptyMap
  /\ deployments = EmptyMap
  /\ commandReports = << >>
  /\ desiredStates = [e \in Env |-> [version |-> 0, routes |-> {}]]
  /\ desiredStateReports = << >>
  /\ counters = [command |-> 0, deployment |-> 0, route |-> 0,
                 version |-> [e \in Env |-> 0]]

\* The Go assignment m[k] = v: it adds the key or overwrites its value.
Put(m, k, v) == [x \in DOMAIN m \cup {k} |-> IF x = k THEN v ELSE m[x]]

-----------------------------------------------------------------------------
(***************************************************************************)
(* deployments.go: commands are created, alone or with a deployment.       *)
(***************************************************************************)
\* Mutants, here and below: what a definition would be after a plausible mistake.
MutUncountedDeployment == counters.deployment
MutRouteNumber == counters.deployment

NextDeployment == counters.deployment + 1
NextCommand    == counters.command + 1
NextRoute      == counters.route + 1

MutUnlinkedCommand(t, d, a) ==
  [type |-> t, deployment |-> NoID, target |-> a, status |-> "pending", claimedBy |-> NoAgent]

NewCommand(t, d, a) ==
  [type |-> t, deployment |-> d, target |-> a,
   status |-> "pending", claimedBy |-> NoAgent]

InitDeploy(e, h, rr, a) ==
  /\ counters.deployment < MaxDeployment
  /\ counters.command < MaxCommand
  /\ counters' = [counters EXCEPT !.deployment = NextDeployment, !.command = NextCommand]
  /\ deployments' = Put(deployments, NextDeployment,
       [env |-> e, host |-> h, requiresRoute |-> rr, target |-> a,
        command |-> NextCommand, status |-> "command_created",
        upstream |-> NoUpstream, route |-> NoID])
  /\ commands' = Put(commands, NextCommand, NewCommand(DeployType, NextDeployment, a))
  /\ UNCHANGED <<commandReports, desiredStates, desiredStateReports>>

\* The deployment need not exist: the handler looked it up before, unlocked.
CreateCommand(t, d, a) ==
  /\ counters.command < MaxCommand
  /\ counters' = [counters EXCEPT !.command = NextCommand]
  /\ commands' = Put(commands, NextCommand, NewCommand(t, d, a))
  /\ UNCHANGED <<deployments, commandReports, desiredStates, desiredStateReports>>

-----------------------------------------------------------------------------
(***************************************************************************)
(* commands.go: an agent claims, starts and reports a command.  A repeated *)
(* claim or start by the same agent is accepted and changes nothing.       *)
(***************************************************************************)
MutClaimableByAnyone(c, a) == commands[c].status = "pending"

Claimable(c, a) == commands[c].status = "pending" /\ commands[c].target = a

ClaimCommand(c, a) ==
  /\ Claimable(c, a)
  /\ commands' = [commands EXCEPT ![c].status = "claimed", ![c].claimedBy = a]
  /\ UNCHANGED <<deployments, commandReports, desiredStates, desiredStateReports, counters>>

MutClaimedAlready(c, a) == FALSE
MutClaimedByAnyone(c, a) == c \in DOMAIN commands /\ commands[c].status = "claimed"

\* A second claim by the claimer is answered like the first (ClaimCommand).
ClaimedAlready(c, a) ==
  c \in DOMAIN commands /\ commands[c].status = "claimed" /\ commands[c].claimedBy = a

MutStartableAnyTime(c, a) == commands[c].claimedBy = a

Startable(c, a) == commands[c].status = "claimed" /\ commands[c].claimedBy = a

\* Starting a DEPLOY_APPLICATION command takes its deployment out of command_created.
BeginsDeploying(c, d) ==
  /\ commands[c].type = DeployType
  /\ d = commands[c].deployment
  /\ deployments[d].status = "command_created"

StartCommand(c, a) ==
  /\ Startable(c, a)
  /\ commands' = [commands EXCEPT ![c].status = "running"]
  /\ deployments' = [d \in DOMAIN deployments |->
       IF BeginsDeploying(c, d) THEN [deployments[d] EXCEPT !.status = "deploying"]
                                ELSE deployments[d]]
  /\ UNCHANGED <<commandReports, desiredStates, desiredStateReports, counters>>

MutStartedOnce(c, a) == FALSE
MutStartedAlready(c, a) == c \in DOMAIN commands /\ commands[c].claimedBy = a

\* A second start by the claimer is answered like the first (StartCommand).
StartedAlready(c, a) ==
  c \in DOMAIN commands /\ commands[c].status = "running" /\ commands[c].claimedBy = a

-----------------------------------------------------------------------------
(***************************************************************************)
(* desired_state.go: the routes of an environment and their version.       *)
(***************************************************************************)
WantsRoute(d) == deployments[d].requiresRoute /\ deployments[d].host # NoHost

MutUnbumpedState(e, rs) == [desiredStates EXCEPT ![e].routes = rs]

\* What incrementDesiredState does after the routes of e become rs.
BumpedState(e, rs) ==
  [desiredStates EXCEPT ![e] = [version |-> desiredStates[e].version + 1, routes |-> rs]]

MutLiveRoutesOfHost(e, h) ==
  {r \in desiredStates[e].routes : r.host = h /\ deployments[r.deployment].status # "removed"}

RoutesOfHost(e, h) == {r \in desiredStates[e].routes : r.host = h}

MutRetargetUpstreamOnly(d, u, r) ==
  LET e == deployments[d].env
  IN /\ desiredStates' = BumpedState(e,
          (desiredStates[e].routes \ {r}) \cup {[r EXCEPT !.upstream = u]})
     /\ counters' = [counters EXCEPT !.version[e] = desiredStates[e].version + 1]

\* upsertRoute finds a route of the host: it keeps its ID.
RetargetRoute(d, u, r) ==
  LET e  == deployments[d].env
      r2 == [r EXCEPT !.upstream = u, !.deployment = d]
  IN /\ desiredStates' = BumpedState(e, (desiredStates[e].routes \ {r}) \cup {r2})
     /\ counters' = [counters EXCEPT !.version[e] = desiredStates[e].version + 1]

\* upsertRoute finds none: it appends one with a fresh ID.
AddRoute(d, u) ==
  LET e  == deployments[d].env
      r2 == [id |-> NextRoute, host |-> deployments[d].host,
             upstream |-> u, deployment |-> d]
  IN /\ desiredStates' = BumpedState(e, desiredStates[e].routes \cup {r2})
     /\ counters' = [counters EXCEPT !.version[e] = desiredStates[e].version + 1,
                                     !.route = NextRoute]

RemainingRoutes(e, i) == {r \in desiredStates[e].routes : r.id # i}

RemoveRoute(e, i) ==
  /\ desiredStates' = BumpedState(e, RemainingRoutes(e, i))
  /\ counters' = [counters EXCEPT !.version[e] = desiredStates[e].version + 1]

-----------------------------------------------------------------------------
(***************************************************************************)
(* ReportCommand: the final report of a command and everything it entails. *)
(* The report may name a deployment other than the command's.  The caller's*)
(* agent ID is stored but never compared, so it is left out.               *)
(***************************************************************************)
MutReportableUnlessPending(c) == commands[c].status # "pending"

Reportable(c) == commands[c].status \in {"claimed", "running"}

EffectiveDeployment(c, dIn) == IF dIn = NoID THEN commands[c].deployment ELSE dIn

DeploySucceeded(d, u) ==
  \/ /\ ~WantsRoute(d)
     /\ deployments' = [deployments EXCEPT ![d].status = "healthy", ![d].upstream = u]
     /\ UNCHANGED <<desiredStates, counters>>
  \/ /\ WantsRoute(d)
     /\ \E r \in RoutesOfHost(deployments[d].env, deployments[d].host) :
          /\ RetargetRoute(d, u, r)
          /\ deployments' = [deployments EXCEPT ![d].status = "route_pending",
                                                ![d].upstream = u, ![d].route = r.id]
  \/ /\ WantsRoute(d)
     /\ RoutesOfHost(deployments[d].env, deployments[d].host) = {}
     /\ AddRoute(d, u)
     /\ deployments' = [deployments EXCEPT ![d].status = "route_pending",
                                           ![d].upstream = u, ![d].route = NextRoute]

MutStopWithdrawsRoute(d) ==
  /\ deployments' = [deployments EXCEPT ![d].status = "removed", ![d].route = NoID]
  /\ IF deployments[d].route = NoID THEN UNCHANGED <<desiredStates, counters>>
     ELSE RemoveRoute(deployments[d].env, deployments[d].route)

StopSucceeded(d) ==
  /\ deployments' = [deployments EXCEPT ![d].status = "removed"]
  /\ UNCHANGED <<desiredStates, counters>>

MutRemoveKeepsStatus(d) ==
  /\ deployments' = [deployments EXCEPT ![d].route = NoID]
  /\ IF deployments[d].route = NoID THEN UNCHANGED <<desiredStates, counters>>
     ELSE RemoveRoute(deployments[d].env, deployments[d].route)

\* The version moves whenever the deployment names a route, found or not.
RemoveSucceeded(d) ==
  /\ deployments' = [deployments EXCEPT ![d].status = "removed", ![d].route = NoID]
  /\ \/ deployments[d].route = NoID /\ UNCHANGED <<desiredStates, counters>>
     \/ deployments[d].route # NoID /\ RemoveRoute(deployments[d].env, deployments[d].route)

ApplySucceeded(c, d, u) ==
  LET t == commands[c].type
  IN \/ t = DeployType /\ d \in DOMAIN deployments /\ DeploySucceeded(d, u)
     \/ t = StopType   /\ d \in DOMAIN deployments /\ StopSucceeded(d)
     \/ t = RemoveType /\ d \in DOMAIN deployments /\ RemoveSucceeded(d)
     \/ /\ t = CleanupType \/ d \notin DOMAIN deployments
        /\ UNCHANGED <<deployments, desiredStates, counters>>

\* The command may be of any type: only the deployment's status is looked at.
FailsDeployment(c, d) == deployments[d].status = "deploying"

ApplyFailed(c, d) ==
  /\ deployments' = [x \in DOMAIN deployments |->
       IF x = d /\ FailsDeployment(c, x) THEN [deployments[x] EXCEPT !.status = "failed"]
                                         ELSE deployments[x]]
  /\ UNCHANGED <<desiredStates, counters>>

ReportCommand(c, dIn, st, u) ==
  LET d == EffectiveDeployment(c, dIn)
  IN /\ Reportable(c)
     /\ commands' = [commands EXCEPT ![c].status = st]
     /\ commandReports' = Append(commandReports,
          [command |-> c, deployment |-> d, status |-> st])
     /\ \/ st = "succeeded" /\ ApplySucceeded(c, d, u)
        \/ st = "failed" /\ ApplyFailed(c, d)
     /\ UNCHANGED desiredStateReports

-----------------------------------------------------------------------------
(***************************************************************************)
(* ApplyDesiredStateReport: a gateway reports what became of a version.    *)
(* Only a report of the current version touches deployments: each one of   *)
(* the environment that is route_pending, whichever deployment it is.      *)
(***************************************************************************)
MutStaleOffByOne(e, v) == v < desiredStates[e].version - 1

Stale(e, v)   == v < desiredStates[e].version
Invalid(e, v) == v > desiredStates[e].version
MutCurrentOrStale(e, v) == v <= desiredStates[e].version
Current(e, v) == ~Stale(e, v) /\ ~Invalid(e, v)

Settled(st) == IF st = "applied" THEN "route_active" ELSE "route_failed"

MutSettlesPublished(d, e, v, st) ==
  /\ Current(e, v) /\ st \in {"applied", "failed"}
  /\ deployments[d].env = e /\ deployments[d].status = "route_pending"
  /\ \E r \in desiredStates[e].routes : r.deployment = d

MutSettlesApplied(d, e, v, st) ==
  /\ Current(e, v) /\ st = "applied"
  /\ deployments[d].env = e /\ deployments[d].status = "route_pending"

Settles(d, e, v, st) ==
  /\ Current(e, v)
  /\ st \in {"applied", "failed"}
  /\ deployments[d].env = e
  /\ deployments[d].status = "route_pending"

ApplyDesiredStateReport(e, v, st) ==
  /\ Len(desiredStateReports) < MaxGatewayReport
  /\ desiredStateReports' = Append(desiredStateReports,
       [env |-> e, version |-> v, stale |-> Stale(e, v), invalid |-> Invalid(e, v),
        status |-> st])
  /\ deployments' = [d \in DOMAIN deployments |->
       IF Settles(d, e, v, st) THEN [deployments[d] EXCEPT !.status = Settled(st)]
                               ELSE deployments[d]]
  /\ UNCHANGED <<commands, commandReports, desiredStates, counters>>

\* testing.go: everything is cleared and every counter restarts.
Reset ==
  /\ commands' = EmptyMap
  /\ deployments' = EmptyMap
  /\ commandReports' = << >>
  /\ desiredStates' = [e \in Env |-> [version |-> 0, routes |-> {}]]
  /\ desiredStateReports' = << >>
  /\ counters' = [command |-> 0, deployment |-> 0, route |-> 0,
                  version |-> [e \in Env |-> 0]]

-----------------------------------------------------------------------------
Call ==
  \/ \E e \in Env, h \in Host \cup {NoHost}, rr \in BOOLEAN, a \in Agent : InitDeploy(e, h, rr, a)
  \/ \E t \in {StopType, RemoveType}, d \in 1..MaxDeployment, a \in Agent : CreateCommand(t, d, a)
  \/ \E a \in Agent : CreateCommand(CleanupType, NoID, a)
  \/ \E c \in DOMAIN commands, a \in Agent : ClaimCommand(c, a) \/ StartCommand(c, a)
  \/ \E c \in DOMAIN commands, dIn \in 0..MaxDeployment, st \in FinalStatus, u \in Upstream :
       ReportCommand(c, dIn, st, u)
  \/ \E e \in Env, v \in ReportedVersion, st \in GatewayStatus : ApplyDesiredStateReport(e, v, st)

Next == Call \/ Reset

Spec == Init /\ [][Next]_vars

-----------------------------------------------------------------------------
(***************************************************************************)
(* Properties                                                              *)
(***************************************************************************)
\* The fields hold what their Go types and the code's own constants allow, and
\* the IDs issued since the last reset are exactly the keys of the maps.
TypeOK ==
  /\ counters \in Counters
  /\ commands \in [1..counters.command -> Command]
  /\ deployments \in [1..counters.deployment -> Deployment]
  /\ commandReports \in Seq(CommandReport)
  /\ desiredStates \in [Env -> DesiredState]
  /\ desiredStateReports \in Seq(DesiredStateReport)

\* A command nobody claimed carries no claimer; every other one was claimed by
\* the agent it was created for, whoever else asked (ClaimCommand, StartCommand).
ClaimedByTarget ==
  \A c \in DOMAIN commands :
    commands[c].claimedBy =
      IF commands[c].status = "pending" THEN NoAgent ELSE commands[c].target

\* A command is final exactly when one report of it was accepted, and it has that
\* report's status: a retried report is refused and not stored (ReportCommand).
OneReportPerCommand ==
  /\ \A i, j \in DOMAIN commandReports :
       commandReports[i].command = commandReports[j].command => i = j
  /\ \A i \in DOMAIN commandReports :
       /\ commandReports[i].command \in DOMAIN commands
       /\ commands[commandReports[i].command].status = commandReports[i].status
  /\ \A c \in DOMAIN commands : commands[c].status \in FinalStatus =>
       \E i \in DOMAIN commandReports : commandReports[i].command = c

\* Deployments and DEPLOY_APPLICATION commands come in pairs that name each other,
\* for the same agent (InitDeploy).
DeployPairs ==
  /\ \A d \in DOMAIN deployments :
       LET c == deployments[d].command
       IN /\ c \in DOMAIN commands
          /\ commands[c].type = DeployType
          /\ commands[c].deployment = d
          /\ commands[c].target = deployments[d].target
  /\ \A c \in DOMAIN commands : commands[c].type = DeployType =>
       /\ commands[c].deployment \in DOMAIN deployments
       /\ deployments[commands[c].deployment].command = c

\* upsertRoute's "route uniqueness is by environment + host", over every sequence
\* of deployments, redeployments and removals.
OneRoutePerHost ==
  \A e \in Env : \A r, s \in desiredStates[e].routes : r.host = s.host => r = s

\* A route ID is in use once in the whole store and was issued by the counter, so
\* removeRoute takes away one route at most.
RouteIDsUnique ==
  /\ \A e \in Env : \A r \in desiredStates[e].routes : r.id \in 1..counters.route
  /\ \A e, f \in Env : \A r \in desiredStates[e].routes, s \in desiredStates[f].routes :
       r.id = s.id => e = f /\ r = s

\* Every published route belongs to a deployment of that environment that asked for
\* this host, still names this route, and last reported this upstream.
RouteOwner ==
  \A e \in Env : \A r \in desiredStates[e].routes :
    /\ r.deployment \in DOMAIN deployments
    /\ WantsRoute(r.deployment)
    /\ deployments[r.deployment].env = e
    /\ deployments[r.deployment].host = r.host
    /\ deployments[r.deployment].route = r.id
    /\ deployments[r.deployment].upstream = r.upstream

\* A deployment whose status speaks of a route names one that was published in its
\* environment, and only a deployment that asked for a route ever names one.
RouteStatusNamesRoute ==
  \A d \in DOMAIN deployments :
    /\ deployments[d].status \in RouteStatus => deployments[d].route # NoID
    /\ deployments[d].route # NoID =>
         /\ WantsRoute(d)
         /\ deployments[d].route <= counters.route
         /\ desiredStates[deployments[d].env].version > 0

\* The version counter of the store is the published version, and an environment at
\* version 0 has never had a route (incrementDesiredState).
VersionsAgree ==
  \A e \in Env :
    /\ counters.version[e] = desiredStates[e].version
    /\ desiredStates[e].version = 0 => desiredStates[e].routes = {}

Accepted(i) == ~desiredStateReports[i].stale /\ ~desiredStateReports[i].invalid

Decides(i, e) ==
  /\ Accepted(i)
  /\ desiredStateReports[i].env = e
  /\ desiredStateReports[i].status \in {"applied", "failed"}

\* A route is pending only as long as no gateway has reported the current version as
\* applied or failed: no deployment waits for a report that has already come.
PendingAwaitsReport ==
  \A d \in DOMAIN deployments : deployments[d].status = "route_pending" =>
    \A i \in DOMAIN desiredStateReports :
      Decides(i, deployments[d].env) =>
        desiredStateReports[i].version < desiredStates[deployments[d].env].version

\* A route is active (failed) only if a gateway reported a version of its
\* environment as applied (failed) that was current when the report arrived.
SettledWasReported ==
  \A d \in DOMAIN deployments : deployments[d].status \in {"route_active", "route_failed"} =>
    \E i \in DOMAIN desiredStateReports :
      /\ Decides(i, deployments[d].env)
      /\ Settled(desiredStateReports[i].status) = deployments[d].status
      /\ desiredStateReports[i].version > 0

\* The versions of the accepted reports of an environment never decrease in the order
\* of arrival and never pass the current one, however late a gateway reports.
AcceptedInOrder ==
  \A i, j \in DOMAIN desiredStateReports :
    /\ Accepted(i) /\ Accepted(j) /\ i <= j
    /\ desiredStateReports[i].env = desiredStateReports[j].env
    => /\ desiredStateReports[i].version <= desiredStateReports[j].version
       /\ desiredStateReports[j].version <= desiredStates[desiredStateReports[j].env].version

-----------------------------------------------------------------------------
Cleared == DOMAIN commands = {}   \* what only a reset brings back

\* Between resets a version number stands for one set of routes: they change only
\* together with a step to the next version, and no version comes back.
VersionNamesRoutes ==
  [][ ~Cleared' => \A e \in Env :
        \/ desiredStates'[e] = desiredStates[e]
        \/ desiredStates'[e].version = desiredStates[e].version + 1 ]_vars

\* Routes change only because a DEPLOY_APPLICATION or REMOVE_DEPLOYMENT command that
\* was in flight has just been reported as succeeded, and in one environment.
RoutesChangeBySuccess ==
  [][ ~Cleared' /\ desiredStates' # desiredStates =>
        /\ \E c \in DOMAIN commands :
             /\ commands[c].type \in {DeployType, RemoveType}
             /\ commands[c].status \notin FinalStatus
             /\ commands'[c].status = "succeeded"
        /\ \E e \in Env : \A f \in Env \ {e} : desiredStates'[f] = desiredStates[f] ]_vars

Progress == [pending |-> 0, claimed |-> 1, running |-> 2, succeeded |-> 3, failed |-> 3]

\* Between resets a command never disappears, is never retargeted, never goes back to
\* an earlier status, and once final stays as it is.
CommandProgress ==
  [][ ~Cleared' => \A c \in DOMAIN commands :
        /\ c \in DOMAIN commands'
        /\ \/ commands'[c].status = commands[c].status
           \/ Progress[commands'[c].status] > Progress[commands[c].status]
        /\ commands'[c].target = commands[c].target
        /\ commands'[c].type = commands[c].type
        /\ commands'[c].deployment = commands[c].deployment ]_vars

-----------------------------------------------------------------------------
(***************************************************************************)
(* The abstract view of the commands: Dispatch.                            *)
(***************************************************************************)
Targets == [c \in DOMAIN commands |-> commands[c].target]
Taken   == {c \in DOMAIN commands : commands[c].claimedBy = commands[c].target}
Results == [i \in DOMAIN commandReports |->
              [command |-> commandReports[i].command, status |-> commandReports[i].status]]

D == INSTANCE Dispatch WITH ID <- 1..MaxCommand, target <- Targets, taken <- Taken,
                            results <- Results

\* Claim, start, report and reset, with all they do to deployments and routes, amount
\* to Dispatch: only the target takes a command, and it ends once, after being taken.
ImplementsDispatch == D!Spec

-----------------------------------------------------------------------------
(***************************************************************************)
(* The abstract view of the routes: Routing.                               *)
(***************************************************************************)
RouteOf(e, h) == CHOOSE r \in RoutesOfHost(e, h) : TRUE

Tables ==
  [e \in Env |-> [h \in {r.host : r \in desiredStates[e].routes} |->
     [owner |-> RouteOf(e, h).deployment, upstream |-> RouteOf(e, h).upstream]]]

Versions == [e \in Env |-> desiredStates[e].version]

Waiting == [e \in Env |-> {d \in DOMAIN deployments :
                             deployments[d].env = e /\ deployments[d].status = "route_pending"}]

\* The last report that decided a version of e.
LastDecision(e) ==
  {i \in DOMAIN desiredStateReports :
     Decides(i, e) /\ \A j \in DOMAIN desiredStateReports : Decides(j, e) => j <= i}

Decided == [e \in Env |-> IF LastDecision(e) = {} THEN 0
                          ELSE desiredStateReports[CHOOSE i \in LastDecision(e) : TRUE].version]

R == INSTANCE Routing WITH Owner <- 1..MaxDeployment, table <- Tables, version <- Versions,
                           waiting <- Waiting, decided <- Decided

\* Reports of commands and of gateways, in any order and naming any deployment, amount to
\* Routing: one target per host, a version that moves with the table, and a wait that
\* begins with a publication and ends when the version then current is decided.
ImplementsRouting == R!Spec

=============================================================================
