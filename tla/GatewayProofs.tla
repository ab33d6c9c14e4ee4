--------------------------- MODULE GatewayProofs ---------------------------
(***************************************************************************)
(* What gateways report and what becomes of it, for every instance.        *)
(*                                                                         *)
(* A step of the store either leaves the statuses that speak of a route as *)
(* they are (but for one deployment that loses its own), publishes or      *)
(* withdraws a route, stores a gateway's report, or resets (GatewaySteps). *)
(* The three facts about reports are inductive together: a publication     *)
(* may wait for its version because no accepted report is ahead of the     *)
(* current one.  Routing is implemented step by step along the same lines. *)
(***************************************************************************)
EXTENDS RouteProofs, SequenceTheorems

\* Only d may lose a status that speaks of a route; nobody gains one.
OnlyLeaves(d) ==
  \A x \in DOMAIN deployments' :
    /\ deployments'[x].status \in RouteStatus =>
         x \in DOMAIN deployments /\ deployments'[x].status = deployments[x].status
    /\ x \in DOMAIN deployments \ {d} /\ deployments[x].status \in RouteStatus =>
         deployments'[x].status = deployments[x].status

Quiet(d) ==
  /\ NoRouteStep
  /\ OnlyLeaves(d)
  /\ desiredStateReports' = desiredStateReports

Publishes(d) ==
  /\ \E r2 : Published(d, r2)
  /\ deployments'[d].status = "route_pending"
  /\ desiredStateReports' = desiredStateReports

Withdraws(d) ==
  /\ Withdrawn(d)
  /\ desiredStateReports' = desiredStateReports

GatewayCall ==
  \/ \E d : Quiet(d) \/ Publishes(d) \/ Withdraws(d)
  \/ \E e \in Env, v \in ReportedVersion, st \in GatewayStatus : ApplyDesiredStateReport(e, v, st)

GatewayStep == GatewayCall \/ Reset

\* Changing the status of one deployment to one that speaks of no route.
LEMMA LeavingStep ==
  ASSUME TypeOK, NEW d, NEW st, st \notin RouteStatus, NoRouteStep,
         DOMAIN deployments' = DOMAIN deployments,
         \A x \in DOMAIN deployments :
           \/ deployments'[x].status = deployments[x].status
           \/ /\ deployments'[x].status = st
              /\ x = d \/ deployments[x].status \notin RouteStatus,
         desiredStateReports' = desiredStateReports
  PROVE  Quiet(d)
BY DEF Quiet, OnlyLeaves

LEMMA InitDeployQuiet ==
  ASSUME TypeOK, NEW e \in Env, NEW h \in Host \cup {NoHost}, NEW rr \in BOOLEAN,
         NEW a \in Agent, InitDeploy(e, h, rr, a)
  PROVE  Quiet(NoID)
<1>1. NoRouteStep
  BY InitDeployRoutes
<1> DEFINE dep == [env |-> e, host |-> h, requiresRoute |-> rr, target |-> a,
                   command |-> NextCommand, status |-> "command_created",
                   upstream |-> NoUpstream, route |-> NoID]
<1>2. dep.status \notin RouteStatus
  BY DEF RouteStatus
<1>3. deployments' = Put(deployments, NextDeployment, dep)
  BY DEF InitDeploy
<1> HIDE DEF dep
<1>4. /\ DOMAIN deployments' = DOMAIN deployments \cup {NextDeployment}
      /\ \A d \in DOMAIN deployments : deployments'[d] = deployments[d]
      /\ deployments'[NextDeployment] = dep
  BY <1>3, Types DEF Put
<1>5. desiredStateReports' = desiredStateReports
  BY DEF InitDeploy
<1> QED
  BY <1>1, <1>2, <1>4, <1>5 DEF Quiet, OnlyLeaves

LEMMA StartCommandQuiet ==
  ASSUME TypeOK, NEW c \in DOMAIN commands, NEW a, StartCommand(c, a)
  PROVE  Quiet(NoID)
<1>1. /\ DOMAIN deployments' = DOMAIN deployments
      /\ desiredStateReports' = desiredStateReports
      /\ \A x \in DOMAIN deployments :
           deployments'[x] = IF BeginsDeploying(c, x)
                             THEN [deployments[x] EXCEPT !.status = "deploying"]
                             ELSE deployments[x]
  BY DEF StartCommand
<1>2. "deploying" \notin RouteStatus /\ "command_created" \notin RouteStatus
  BY DEF RouteStatus
<1>3. \A x \in DOMAIN deployments :
        \/ deployments'[x].status = deployments[x].status
        \/ /\ deployments'[x].status = "deploying"
           /\ deployments[x].status \notin RouteStatus
  BY <1>1, <1>2, Types DEF BeginsDeploying, Deployment
<1> QED
  BY <1>1, <1>2, <1>3, StartCommandRoutes, LeavingStep

LEMMA ReportCommandGateway ==
  ASSUME TypeOK, OneRoutePerHost, NEW c \in DOMAIN commands, NEW dIn, NEW st, NEW u,
         ReportCommand(c, dIn, st, u)
  PROVE  \E d : Quiet(d) \/ Publishes(d) \/ Withdraws(d)
<1> DEFINE d == EffectiveDeployment(c, dIn)
<1>0. /\ desiredStateReports' = desiredStateReports
      /\ \A x \in DOMAIN deployments : deployments[x] \in Deployment
      /\ {"healthy", "failed", "removed", "deploying"} \cap RouteStatus = {}
  BY Types DEF ReportCommand, RouteStatus
<1> HIDE DEF d
<1>1. CASE ApplyFailed(c, d)
  <2>1. /\ DOMAIN deployments' = DOMAIN deployments
        /\ \A x \in DOMAIN deployments :
             \/ deployments'[x] = deployments[x]
             \/ x = d /\ deployments'[x] = [deployments[x] EXCEPT !.status = "failed"]
        /\ UNCHANGED <<desiredStates, counters>>
    BY <1>1 DEF ApplyFailed
  <2>2. NoRouteStep
    BY <1>0, <2>1, StatusStep
  <2>3. \A x \in DOMAIN deployments :
          \/ deployments'[x].status = deployments[x].status
          \/ deployments'[x].status = "failed" /\ x = d
    BY <1>0, <2>1 DEF Deployment
  <2> QED
    BY <1>0, <2>1, <2>2, <2>3, LeavingStep
<1>2. CASE d \in DOMAIN deployments /\ DeploySucceeded(d, u)
  <2>1. CASE NoRouteStep /\ ~WantsRoute(d)
    <3>1. deployments' = [deployments EXCEPT ![d].status = "healthy", ![d].upstream = u]
      BY <1>2, <2>1 DEF DeploySucceeded
    <3>2. /\ DOMAIN deployments' = DOMAIN deployments
          /\ \A x \in DOMAIN deployments :
               \/ deployments'[x].status = deployments[x].status
               \/ deployments'[x].status = "healthy" /\ x = d
      BY <1>0, <3>1 DEF Deployment
    <3> QED
      BY <1>0, <2>1, <3>2, LeavingStep
  <2>2. CASE WantsRoute(d)
    <3>1. PICK i : deployments' = [deployments EXCEPT ![d].status = "route_pending",
                                                      ![d].upstream = u, ![d].route = i]
      BY <1>2, <2>2 DEF DeploySucceeded
    <3>2. deployments'[d].status = "route_pending"
      BY <1>0, <1>2, <3>1 DEF Deployment
    <3>3. ~NoRouteStep
      <4> DEFINE e == deployments[d].env
      <4>1. e \in Env /\ desiredStates[e].version \in Nat
        BY <1>0, <1>2, Types DEF Deployment, DesiredState
      <4>2. \E rs : desiredStates' = BumpedState(e, rs)
        BY <1>2, <2>2 DEF DeploySucceeded, RetargetRoute, AddRoute
      <4>3. desiredStates'[e].version = desiredStates[e].version + 1
        BY <4>1, <4>2, Types DEF BumpedState
      <4> QED
        BY <4>1, <4>3 DEF NoRouteStep
    <3>4. \E r2 : Published(d, r2)
      BY <1>2, <3>3, DeployRoutes
    <3> QED
      BY <1>0, <3>2, <3>4 DEF Publishes
  <2>3. ~WantsRoute(d) => NoRouteStep
    BY <1>2, DeployRoutes DEF Published
  <2> QED
    BY <2>1, <2>2, <2>3
<1>3. CASE d \in DOMAIN deployments /\ StopSucceeded(d)
  <2>1. /\ DOMAIN deployments' = DOMAIN deployments
        /\ \A x \in DOMAIN deployments :
             \/ deployments'[x] = deployments[x]
             \/ x = d /\ deployments'[x] = [deployments[x] EXCEPT !.status = "removed"]
        /\ UNCHANGED <<desiredStates, counters>>
    BY <1>3 DEF StopSucceeded
  <2>2. NoRouteStep
    BY <1>0, <2>1, StatusStep
  <2>3. \A x \in DOMAIN deployments :
          \/ deployments'[x].status = deployments[x].status
          \/ deployments'[x].status = "removed" /\ x = d
    BY <1>0, <2>1 DEF Deployment
  <2> QED
    BY <1>0, <2>1, <2>2, <2>3, LeavingStep
<1>4. CASE d \in DOMAIN deployments /\ RemoveSucceeded(d)
  <2>1. CASE NoRouteStep
    <3>1. /\ DOMAIN deployments' = DOMAIN deployments
          /\ \A x \in DOMAIN deployments :
               \/ deployments'[x].status = deployments[x].status
               \/ deployments'[x].status = "removed" /\ x = d
      BY <1>0, <1>4 DEF RemoveSucceeded, Deployment
    <3> QED
      BY <1>0, <2>1, <3>1, LeavingStep
  <2> QED
    BY <1>0, <1>4, <2>1, RemoveRoutes DEF Withdraws
<1>5. CASE UNCHANGED <<deployments, desiredStates, counters>>
  BY <1>0, <1>5 DEF NoRouteStep, KeepsRoute, SameForm, Quiet, OnlyLeaves
<1> QED
  BY <1>1, <1>2, <1>3, <1>4, <1>5 DEF ReportCommand, ApplySucceeded, d

LEMMA GatewayCalls ==
  ASSUME TypeOK, OneRoutePerHost, Call \/ UNCHANGED vars
  PROVE  GatewayCall
<1>1. ASSUME NEW e \in Env, NEW h \in Host \cup {NoHost}, NEW rr \in BOOLEAN, NEW a \in Agent,
             InitDeploy(e, h, rr, a)
      PROVE  GatewayCall
  BY <1>1, InitDeployQuiet DEF GatewayCall
<1>2. ASSUME NEW t, NEW d, NEW a, CreateCommand(t, d, a)
      PROVE  GatewayCall
  BY <1>2, CreateCommandRoutes DEF CreateCommand, Quiet, OnlyLeaves, GatewayCall
<1>3. ASSUME NEW c \in DOMAIN commands, NEW a, ClaimCommand(c, a)
      PROVE  GatewayCall
  BY <1>3 DEF ClaimCommand, NoRouteStep, KeepsRoute, SameForm, Quiet, OnlyLeaves, GatewayCall
<1>4. ASSUME NEW c \in DOMAIN commands, NEW a, StartCommand(c, a)
      PROVE  GatewayCall
  BY <1>4, StartCommandQuiet DEF GatewayCall
<1>5. ASSUME NEW c \in DOMAIN commands, NEW dIn, NEW st, NEW u, ReportCommand(c, dIn, st, u)
      PROVE  GatewayCall
  BY <1>5, ReportCommandGateway DEF GatewayCall
<1>6. CASE UNCHANGED vars
  BY <1>6 DEF vars, NoRouteStep, KeepsRoute, SameForm, Quiet, OnlyLeaves, GatewayCall
<1> QED
  BY <1>1, <1>2, <1>3, <1>4, <1>5, <1>6 DEF Call, GatewayCall

LEMMA GatewaySteps ==
  ASSUME TypeOK, OneRoutePerHost, [Next]_vars
  PROVE  GatewayStep
BY GatewayCalls DEF Next, GatewayStep

-----------------------------------------------------------------------------
(***************************************************************************)
(* The reports of gateways.                                                *)
(***************************************************************************)
ReportsInv ==
  /\ AcceptedInOrder
  /\ PendingAwaitsReport
  /\ SettledWasReported

LEMMA ReportTypes ==
  ASSUME TypeOK
  PROVE  /\ Len(desiredStateReports) \in Nat
         /\ DOMAIN desiredStateReports = 1..Len(desiredStateReports)
         /\ \A i \in DOMAIN desiredStateReports : desiredStateReports[i] \in DesiredStateReport
<1>1. desiredStateReports \in Seq(DesiredStateReport)
  BY DEF TypeOK
<1> QED
  BY <1>1, LenProperties

\* Report n + 1 is stored: it is accepted exactly if its version is the current one.
Stored(n, e, v, st) ==
  /\ DOMAIN desiredStateReports = 1..n
  /\ DOMAIN desiredStateReports' = 1..(n + 1)
  /\ \A i \in 1..n : /\ desiredStateReports'[i] = desiredStateReports[i]
                     /\ Accepted(i)' <=> Accepted(i)
                     /\ \A f : Decides(i, f)' <=> Decides(i, f)
  /\ desiredStateReports'[n + 1].env = e
  /\ desiredStateReports'[n + 1].version = v
  /\ desiredStateReports'[n + 1].status = st
  /\ Accepted(n + 1)' <=> v = desiredStates[e].version
  /\ \A f : Decides(n + 1, f)' <=>
       f = e /\ v = desiredStates[e].version /\ st \in {"applied", "failed"}

LEMMA ReportStored ==
  ASSUME TypeOK, NEW e \in Env, NEW v \in ReportedVersion, NEW st \in GatewayStatus,
         ApplyDesiredStateReport(e, v, st)
  PROVE  \E n \in Nat : Stored(n, e, v, st)
<1> DEFINE rep == [env |-> e, version |-> v, stale |-> Stale(e, v),
                   invalid |-> Invalid(e, v), status |-> st]
<1>0. PICK n \in Nat : n = Len(desiredStateReports)
  BY ReportTypes
<1>1. DOMAIN desiredStateReports = 1..n /\ desiredStateReports \in Seq(DesiredStateReport)
  BY <1>0, ReportTypes DEF TypeOK
<1>2. desiredStateReports' = Append(desiredStateReports, rep)
  BY DEF ApplyDesiredStateReport
<1>3. /\ rep.env = e /\ rep.version = v /\ rep.status = st
      /\ rep.stale = Stale(e, v) /\ rep.invalid = Invalid(e, v)
  BY Zenon
<1> HIDE DEF rep
<1>4. /\ DOMAIN desiredStateReports' = 1..(n + 1)
      /\ \A i \in 1..n : desiredStateReports'[i] = desiredStateReports[i]
      /\ desiredStateReports'[n + 1] = rep
  BY <1>0, <1>1, <1>2, AppendProperties
<1>5. v \in Int /\ desiredStates[e].version \in Nat
  BY BoundsAssumption, Types DEF DesiredState
<1>6. Accepted(n + 1)' <=> (~Stale(e, v) /\ ~Invalid(e, v))
  BY <1>3, <1>4, Zenon DEF Accepted
<1>7. (~Stale(e, v) /\ ~Invalid(e, v)) <=> v = desiredStates[e].version
  BY <1>5 DEF Stale, Invalid
<1>8. \A i \in 1..n : (Accepted(i)' <=> Accepted(i)) /\ \A f : Decides(i, f)' <=> Decides(i, f)
  BY <1>4, Zenon DEF Accepted, Decides
<1>9. \A f : Decides(n + 1, f)' <=>
        f = e /\ v = desiredStates[e].version /\ st \in {"applied", "failed"}
  <2>1. Accepted(n + 1)' <=> v = desiredStates[e].version
    BY <1>6, <1>7, Zenon
  <2> HIDE DEF Accepted
  <2> QED
    BY <1>3, <1>4, <2>1 DEF Decides
<1>10. Accepted(n + 1)' <=> v = desiredStates[e].version
  BY <1>6, <1>7, Zenon
<1>11. Stored(n, e, v, st)
  BY <1>1, <1>3, <1>4, <1>8, <1>9, <1>10, Zenon DEF Stored
<1> QED
  BY <1>11

LEMMA QuietReports ==
  ASSUME TypeOK, ReportsInv, NEW d, Quiet(d)
  PROVE  ReportsInv'
<1>1. /\ desiredStateReports' = desiredStateReports /\ desiredStates' = desiredStates
      /\ \A x \in DOMAIN deployments' : deployments'[x].status \in RouteStatus =>
           /\ x \in DOMAIN deployments
           /\ deployments'[x].status = deployments[x].status
           /\ deployments'[x].env = deployments[x].env
  BY DEF Quiet, OnlyLeaves, NoRouteStep, KeepsRoute, SameForm
<1>2. AcceptedInOrder'
  BY <1>1 DEF ReportsInv, AcceptedInOrder, Accepted
<1>3. PendingAwaitsReport'
  BY <1>1 DEF ReportsInv, PendingAwaitsReport, Decides, Accepted, RouteStatus
<1>4. SettledWasReported'
  BY <1>1 DEF ReportsInv, SettledWasReported, Decides, Accepted, RouteStatus
<1> QED
  BY <1>2, <1>3, <1>4 DEF ReportsInv

\* An environment moves on: no accepted report is ahead of its version.
LEMMA MovingReports ==
  ASSUME TypeOK, ReportsInv, NEW d, StepOf(d),
         deployments'[d].status \notin {"route_active", "route_failed"},
         desiredStateReports' = desiredStateReports
  PROVE  ReportsInv'
<1> DEFINE e == deployments[d].env
<1>1. /\ d \in DOMAIN deployments /\ DOMAIN deployments' = DOMAIN deployments
      /\ \A x \in DOMAIN deployments \ {d} : deployments'[x] = deployments[x]
      /\ \A x \in DOMAIN deployments : deployments'[x].env = deployments[x].env
      /\ \A x \in DOMAIN deployments : deployments[x].env \in Env
      /\ desiredStates'[e].version = desiredStates[e].version + 1
      /\ \A f \in Env \ {e} : desiredStates'[f] = desiredStates[f]
  BY Types DEF StepOf, SameForm, Deployment
<1>2. /\ \A f \in Env : desiredStates[f].version \in Nat
      /\ \A i \in DOMAIN desiredStateReports :
           desiredStateReports[i].version \in Int /\ desiredStateReports[i].env \in Env
  BY BoundsAssumption, Types, ReportTypes DEF DesiredState, DesiredStateReport
<1>3. \A f \in Env : /\ desiredStates'[f].version \in Nat
                     /\ desiredStates'[f].version >= desiredStates[f].version
                     /\ f = e => desiredStates'[f].version > desiredStates[f].version
  BY <1>1, <1>2
<1>4. \A i : /\ Accepted(i)' <=> Accepted(i)
             /\ \A f : Decides(i, f)' <=> Decides(i, f)
  BY Zenon DEF Accepted, Decides
<1> HIDE DEF e
<1>5. AcceptedInOrder'
  <2> SUFFICES ASSUME NEW i \in DOMAIN desiredStateReports, NEW j \in DOMAIN desiredStateReports,
                      Accepted(i), Accepted(j), i <= j,
                      desiredStateReports[i].env = desiredStateReports[j].env
               PROVE  /\ desiredStateReports[i].version <= desiredStateReports[j].version
                      /\ desiredStateReports[j].version
                           <= desiredStates'[desiredStateReports[j].env].version
    BY <1>4 DEF AcceptedInOrder
  <2>1. /\ desiredStateReports[i].version <= desiredStateReports[j].version
        /\ desiredStateReports[j].version <= desiredStates[desiredStateReports[j].env].version
    BY DEF ReportsInv, AcceptedInOrder
  <2> QED
    BY <1>2, <1>3, <2>1
<1>6. PendingAwaitsReport'
  <2> SUFFICES ASSUME NEW x \in DOMAIN deployments, deployments'[x].status = "route_pending",
                      NEW i \in DOMAIN desiredStateReports, Decides(i, deployments[x].env)
               PROVE  desiredStateReports[i].version < desiredStates'[deployments[x].env].version
    BY <1>1, <1>4 DEF PendingAwaitsReport
  <2>1. CASE x = d
    <3>1. Accepted(i) /\ desiredStateReports[i].env = deployments[x].env
      BY DEF Decides
    <3>2. desiredStateReports[i].version <= desiredStates[deployments[x].env].version
      <4>1. i <= i
        BY ReportTypes
      <4> QED
        BY <3>1, <4>1 DEF ReportsInv, AcceptedInOrder
    <3> QED
      BY <1>1, <1>2, <1>3, <2>1, <3>2 DEF e
  <2>2. CASE x # d
    <3>1. desiredStateReports[i].version < desiredStates[deployments[x].env].version
      BY <1>1, <2>2 DEF ReportsInv, PendingAwaitsReport
    <3> QED
      BY <1>1, <1>2, <1>3, <3>1
  <2> QED
    BY <2>1, <2>2
<1>7. SettledWasReported'
  <2> SUFFICES ASSUME NEW x \in DOMAIN deployments,
                      deployments'[x].status \in {"route_active", "route_failed"}
               PROVE  \E i \in DOMAIN desiredStateReports :
                        /\ Decides(i, deployments[x].env)
                        /\ Settled(desiredStateReports[i].status) = deployments'[x].status
                        /\ desiredStateReports[i].version > 0
    BY <1>1, <1>4 DEF SettledWasReported, Settled
  <2>1. deployments'[x] = deployments[x]
    BY <1>1
  <2> QED
    BY <2>1 DEF ReportsInv, SettledWasReported
<1> QED
  BY <1>5, <1>6, <1>7 DEF ReportsInv

LEMMA StoredReports ==
  ASSUME TypeOK, RouteStatusNamesRoute, ReportsInv,
         NEW e \in Env, NEW v \in ReportedVersion, NEW st \in GatewayStatus,
         ApplyDesiredStateReport(e, v, st)
  PROVE  ReportsInv'
<1>0. PICK n \in Nat : Stored(n, e, v, st)
  BY ReportStored
<1>1. /\ DOMAIN desiredStateReports = 1..n
      /\ DOMAIN desiredStateReports' = 1..(n + 1)
      /\ \A i \in 1..n : /\ desiredStateReports'[i] = desiredStateReports[i]
                         /\ Accepted(i)' <=> Accepted(i)
                         /\ \A f : Decides(i, f)' <=> Decides(i, f)
      /\ desiredStateReports'[n + 1].env = e
      /\ desiredStateReports'[n + 1].version = v
      /\ desiredStateReports'[n + 1].status = st
      /\ Accepted(n + 1)' <=> v = desiredStates[e].version
      /\ \A f : Decides(n + 1, f)' <=>
           f = e /\ v = desiredStates[e].version /\ st \in {"applied", "failed"}
  BY <1>0, Zenon DEF Stored
<1>2. /\ desiredStates' = desiredStates
      /\ DOMAIN deployments' = DOMAIN deployments
      /\ \A x \in DOMAIN deployments : deployments'[x] =
           IF Settles(x, e, v, st) THEN [deployments[x] EXCEPT !.status = Settled(st)]
                                   ELSE deployments[x]
  BY DEF ApplyDesiredStateReport
<1>3. /\ v \in Int /\ desiredStates[e].version \in Nat
      /\ \A f \in Env : desiredStates[f].version \in Nat
      /\ \A x \in DOMAIN deployments : deployments[x] \in Deployment
      /\ \A i \in 1..n : desiredStateReports[i].version \in Int /\ desiredStateReports[i].env \in Env
  BY <1>1, BoundsAssumption, Types, ReportTypes DEF DesiredState, DesiredStateReport
<1>4. ASSUME NEW x \in DOMAIN deployments
      PROVE  /\ deployments'[x].env = deployments[x].env
             /\ Settles(x, e, v, st) =>
                  /\ deployments'[x].status = Settled(st)
                  /\ deployments[x].env = e /\ deployments[x].status = "route_pending"
                  /\ v = desiredStates[e].version /\ st \in {"applied", "failed"}
             /\ ~Settles(x, e, v, st) => deployments'[x].status = deployments[x].status
  BY <1>2, <1>3 DEF Deployment, Settles, Current, Stale, Invalid
<1>5. AcceptedInOrder'
  <2> SUFFICES ASSUME NEW i \in 1..(n + 1), NEW j \in 1..(n + 1),
                      Accepted(i)', Accepted(j)', i <= j,
                      desiredStateReports'[i].env = desiredStateReports'[j].env
               PROVE  /\ desiredStateReports'[i].version <= desiredStateReports'[j].version
                      /\ desiredStateReports'[j].version
                           <= desiredStates[desiredStateReports'[j].env].version
    BY <1>1, <1>2 DEF AcceptedInOrder
  <2>1. ASSUME NEW k \in 1..n, Accepted(k)
        PROVE  desiredStateReports[k].version <= desiredStates[desiredStateReports[k].env].version
    <3>1. k <= k
      OBVIOUS
    <3> QED
      BY <1>1, <2>1, <3>1 DEF ReportsInv, AcceptedInOrder
  <2>2. CASE j \in 1..n
    <3>1. i \in 1..n
      BY <1>1, <2>2
    <3> QED
      BY <1>1, <2>2, <3>1 DEF ReportsInv, AcceptedInOrder
  <2>3. CASE i \in 1..n /\ j = n + 1
    BY <1>1, <1>3, <2>1, <2>3
  <2>4. CASE i = n + 1 /\ j = n + 1
    BY <1>1, <1>3, <2>4
  <2> QED
    BY <1>1, <2>2, <2>3, <2>4
<1>6. PendingAwaitsReport'
  <2> SUFFICES ASSUME NEW x \in DOMAIN deployments, deployments'[x].status = "route_pending",
                      NEW f, f = deployments[x].env, NEW i \in 1..(n + 1), Decides(i, f)'
               PROVE  desiredStateReports'[i].version < desiredStates[f].version
    <3>1. \A x \in DOMAIN deployments : deployments'[x].env = deployments[x].env
      BY <1>4
    <3> QED
      BY <1>1, <1>2, <3>1, ZenonT(30) DEF PendingAwaitsReport, Decides, Accepted
  <2>1. ~Settles(x, e, v, st)
    BY <1>4 DEF Settled
  <2>2. deployments[x].status = "route_pending"
    BY <1>4, <2>1
  <2>3. i # n + 1
    BY <1>1, <1>3, <2>1, <2>2 DEF Settles, Current, Stale, Invalid
  <2> QED
    BY <1>1, <2>2, <2>3, SMTT(20) DEF ReportsInv, PendingAwaitsReport
<1>7. SettledWasReported'
  <2> SUFFICES ASSUME NEW x \in DOMAIN deployments, NEW f, f = deployments[x].env,
                      deployments'[x].status \in {"route_active", "route_failed"}
               PROVE  \E i \in 1..(n + 1) :
                        /\ Decides(i, f)'
                        /\ Settled(desiredStateReports'[i].status) = deployments'[x].status
                        /\ desiredStateReports'[i].version > 0
    <3> SUFFICES ASSUME NEW x \in DOMAIN deployments,
                        deployments'[x].status \in {"route_active", "route_failed"}
                 PROVE  \E i \in 1..(n + 1) :
                          /\ Decides(i, deployments[x].env)'
                          /\ Settled(desiredStateReports'[i].status) = deployments'[x].status
                          /\ desiredStateReports'[i].version > 0
      BY <1>1, <1>2 DEF SettledWasReported, Settled
    <3>1. PICK f : f = deployments[x].env
      OBVIOUS
    <3>2. PICK i \in 1..(n + 1) :
             /\ Decides(i, f)'
             /\ Settled(desiredStateReports'[i].status) = deployments'[x].status
             /\ desiredStateReports'[i].version > 0
      BY <3>1
    <3>3. Decides(i, deployments[x].env)'
      BY <1>4, <3>1, <3>2 DEF Decides
    <3> QED
      BY <3>2, <3>3
  <2>1. CASE Settles(x, e, v, st)
    <3>1. v > 0
      BY <1>4, <2>1 DEF RouteStatusNamesRoute, RouteStatus
    <3>2. n + 1 \in 1..(n + 1)
      BY <1>1
    <3> QED
      BY <1>1, <1>4, <2>1, <3>1, <3>2
  <2>2. CASE ~Settles(x, e, v, st)
    <3>1. PICK i \in 1..n : /\ Decides(i, deployments[x].env)
                            /\ Settled(desiredStateReports[i].status) = deployments[x].status
                            /\ desiredStateReports[i].version > 0
      BY <1>1, <1>4, <2>2 DEF ReportsInv, SettledWasReported
    <3>2. i \in 1..(n + 1)
      BY <1>1
    <3> QED
      BY <1>1, <1>4, <2>2, <3>1, <3>2
  <2> QED
    BY <2>1, <2>2
<1> QED
  BY <1>5, <1>6, <1>7 DEF ReportsInv

LEMMA ReportsStep ==
  ASSUME TypeOK, RoutesInv, ReportsInv, [Next]_vars
  PROVE  ReportsInv'
<1>1. GatewayStep
  BY GatewaySteps DEF RoutesInv
<1>2. ASSUME NEW d, Quiet(d)
      PROVE  ReportsInv'
  BY <1>2, QuietReports
<1>3. ASSUME NEW d, Publishes(d) \/ Withdraws(d)
      PROVE  ReportsInv'
  <2>1. /\ StepOf(d) /\ desiredStateReports' = desiredStateReports
        /\ deployments'[d].status \notin {"route_active", "route_failed"}
    BY <1>3 DEF Publishes, Published, Withdraws, Withdrawn, RouteStatus
  <2> QED
    BY <2>1, MovingReports
<1>4. ASSUME NEW e \in Env, NEW v \in ReportedVersion, NEW st \in GatewayStatus,
             ApplyDesiredStateReport(e, v, st)
      PROVE  ReportsInv'
  BY <1>4, StoredReports DEF RoutesInv
<1>5. CASE Reset
  BY <1>5 DEF Reset, EmptyMap, ReportsInv, AcceptedInOrder, PendingAwaitsReport,
              SettledWasReported
<1> QED
  BY <1>1, <1>2, <1>3, <1>4, <1>5 DEF GatewayStep, GatewayCall

LEMMA ReportsInvariant == Spec => []ReportsInv
<1>1. Init => ReportsInv
  BY DEF Init, EmptyMap, ReportsInv, AcceptedInOrder, PendingAwaitsReport, SettledWasReported
<1>2. TypeOK /\ RoutesInv /\ ReportsInv /\ [Next]_vars => ReportsInv'
  BY ReportsStep
<1> QED
  BY <1>1, <1>2, TypeCorrect, RoutesInvariant, PTL DEF Spec

\* However late and in whatever order gateways report, the accepted versions of an
\* environment never go back and never pass the current one (ApplyDesiredStateReport).
THEOREM ReportsInOrder == Spec => []AcceptedInOrder
<1>1. ReportsInv => AcceptedInOrder
  BY DEF ReportsInv
<1> QED
  BY <1>1, ReportsInvariant, PTL

\* No deployment is left pending by a report that decided the version it waits for
\* (ApplyDesiredStateReport, upsertRoute).
THEOREM PendingIsAwaited == Spec => []PendingAwaitsReport
<1>1. ReportsInv => PendingAwaitsReport
  BY DEF ReportsInv
<1> QED
  BY <1>1, ReportsInvariant, PTL

\* A deployment says active or failed only on the word of a gateway about a version that
\* was current when it spoke (ApplyDesiredStateReport).
THEOREM SettledByReport == Spec => []SettledWasReported
<1>1. ReportsInv => SettledWasReported
  BY DEF ReportsInv
<1> QED
  BY <1>1, ReportsInvariant, PTL

-----------------------------------------------------------------------------
(***************************************************************************)
(* The store implements Routing.                                           *)
(***************************************************************************)
\* What is said of gateways' reports follows from the reports alone.
LEMMA SameDecided ==
  ASSUME desiredStateReports' = desiredStateReports
  PROVE  Decided' = Decided
BY DEF Decided, LastDecision, Decides, Accepted

LEMMA InitRouting == Init => R!Init
<1> SUFFICES ASSUME Init PROVE R!Init
  OBVIOUS
<1>1. Tables = [e \in Env |-> R!NoTable]
  BY DEF Init, Tables, R!NoTable
<1>2. Versions = [e \in Env |-> 0] /\ Waiting = [e \in Env |-> {}]
  BY DEF Init, EmptyMap, Versions, Waiting
<1>3. Decided = [e \in Env |-> 0]
  BY DEF Init, Decided, LastDecision
<1> QED
  BY <1>1, <1>2, <1>3 DEF R!Init

LEMMA QuietRouting ==
  ASSUME TypeOK, DeploymentsBounded, NEW d, Quiet(d)
  PROVE  [R!Next]_(R!vars)
<1>1. /\ desiredStates' = desiredStates
      /\ desiredStateReports' = desiredStateReports
      /\ DOMAIN deployments \subseteq DOMAIN deployments'
      /\ \A x \in DOMAIN deployments : deployments'[x].env = deployments[x].env
      /\ \A x \in DOMAIN deployments' : deployments'[x].status = "route_pending" =>
           x \in DOMAIN deployments /\ deployments[x].status = "route_pending"
      /\ \A x \in DOMAIN deployments \ {d} : deployments[x].status = "route_pending" =>
           deployments'[x].status = "route_pending"
  BY DEF Quiet, OnlyLeaves, NoRouteStep, KeepsRoute, SameForm, RouteStatus
<1>2. Tables' = Tables /\ Versions' = Versions /\ Decided' = Decided
  BY <1>1, SameDecided DEF Tables, RouteOf, RoutesOfHost, Versions
<1>3. CASE d \in DOMAIN deployments /\ deployments'[d].status # "route_pending"
  <2>1. PICK e \in Env : e = deployments[d].env
    BY <1>3, Types DEF Deployment
  <2>2. Waiting' = [Waiting EXCEPT ![e] = @ \ {d}]
    <3>1. \A x : x \in DOMAIN deployments' /\ deployments'[x].status = "route_pending" <=>
                 /\ x \in DOMAIN deployments /\ deployments[x].status = "route_pending"
                 /\ x # d
      BY <1>1, <1>3
    <3>2. Waiting'[e] = Waiting[e] \ {d}
      BY <1>1, <1>3, <2>1, <3>1 DEF Waiting
    <3>3. \A f \in Env \ {e} : Waiting'[f] = Waiting[f]
      BY <1>1, <1>3, <2>1, <3>1 DEF Waiting
    <3> QED
      BY <3>2, <3>3 DEF Waiting
  <2>3. R!GiveUp(e, d) /\ d \in 1..MaxDeployment
    BY <1>2, <1>3, <2>2 DEF R!GiveUp, DeploymentsBounded
  <2> QED
    BY <2>3 DEF R!Next
<1>4. CASE ~(d \in DOMAIN deployments /\ deployments'[d].status # "route_pending")
  <2>1. Waiting' = Waiting
    BY <1>1, <1>4 DEF Waiting
  <2> QED
    BY <1>2, <2>1 DEF R!vars
<1> QED
  BY <1>3, <1>4

LEMMA PublishRouting ==
  ASSUME TypeOK, TypeOK', DeploymentsBounded, NEW d, Publishes(d)
  PROVE  R!Next
<1>1. PICK r2 : Published(d, r2)
  BY DEF Publishes
<1>2. /\ StepOf(d) /\ WantsRoute(d)
      /\ deployments'[d].status = "route_pending"
      /\ desiredStateReports' = desiredStateReports
  BY <1>1 DEF Publishes, Published
<1>3. PICK e \in Env, h \in Host : e = deployments[d].env /\ h = deployments[d].host
  BY <1>2, Types DEF StepOf, Deployment, WantsRoute
<1> DEFINE old == desiredStates[e].routes
           t == [owner |-> d, upstream |-> r2.upstream]
<1>4. /\ d \in DOMAIN deployments /\ DOMAIN deployments' = DOMAIN deployments
      /\ \A x \in DOMAIN deployments \ {d} : deployments'[x] = deployments[x]
      /\ deployments'[d].env = e
      /\ desiredStates'[e].version = desiredStates[e].version + 1
      /\ \A f \in Env \ {e} : desiredStates'[f] = desiredStates[f]
  BY <1>2, <1>3 DEF StepOf, SameForm
<1>5. /\ desiredStates'[e].routes = {s \in old : s.host # h} \cup {r2}
      /\ r2.host = h /\ r2.deployment = d /\ r2.upstream = deployments'[d].upstream
  BY <1>1, <1>3 DEF Published
<1>6. /\ d \in 1..MaxDeployment
      /\ t \in R!Target
  <2>1. deployments' \in [1..counters'.deployment -> Deployment]
    BY DEF TypeOK
  <2>2. r2.upstream \in Upstream
    BY <1>4, <1>5, <2>1 DEF Deployment
  <2> QED
    BY <1>4, <2>2 DEF DeploymentsBounded, R!Target
<1>7. Versions' = [Versions EXCEPT ![e] = @ + 1]
  BY <1>4 DEF Versions
<1>8. Waiting' = [Waiting EXCEPT ![e] = @ \cup {d}]
  <2>1. \A x \in DOMAIN deployments :
          /\ deployments'[x].env = deployments[x].env
          /\ x # d => deployments'[x].status = deployments[x].status
    BY <1>3, <1>4
  <2>2. /\ DOMAIN deployments' = DOMAIN deployments /\ deployments[d].env = e
        /\ deployments'[d].status = "route_pending" /\ d \in DOMAIN deployments
    BY <1>2, <1>3, <1>4
  <2>3. Waiting'[e] = Waiting[e] \cup {d}
    BY <2>1, <2>2 DEF Waiting
  <2>4. \A f \in Env \ {e} : Waiting'[f] = Waiting[f]
    BY <2>1, <2>2 DEF Waiting
  <2> QED
    BY <2>3, <2>4 DEF Waiting
<1>9. Tables' = [Tables EXCEPT ![e] =
        [x \in DOMAIN Tables[e] \cup {h} |-> IF x = h THEN t ELSE Tables[e][x]]]
  <2>1. /\ RoutesOfHost(e, h)' = {r2}
        /\ \A x : x # h => RoutesOfHost(e, x)' = RoutesOfHost(e, x)
        /\ \A f \in Env \ {e} : \A x : RoutesOfHost(f, x)' = RoutesOfHost(f, x)
    BY <1>4, <1>5 DEF RoutesOfHost
  <2>2. /\ RouteOf(e, h)' = r2
        /\ \A x : x # h => RouteOf(e, x)' = RouteOf(e, x)
        /\ \A f \in Env \ {e} : \A x : RouteOf(f, x)' = RouteOf(f, x)
    BY <2>1 DEF RouteOf
  <2>3. {r.host : r \in desiredStates'[e].routes} = {r.host : r \in old} \cup {h}
    BY <1>5
  <2>4. DOMAIN Tables[e] = {r.host : r \in old}
    BY DEF Tables
  <2> HIDE DEF old
  <2>5. Tables'[e] = [x \in DOMAIN Tables[e] \cup {h} |-> IF x = h THEN t ELSE Tables[e][x]]
    BY <1>5, <2>2, <2>3, <2>4 DEF Tables, old
  <2>6. \A f \in Env \ {e} : Tables'[f] = Tables[f]
    BY <1>4, <2>2 DEF Tables
  <2> QED
    BY <2>5, <2>6 DEF Tables
<1>10. Decided' = Decided
  BY <1>2, SameDecided
<1> HIDE DEF t
<1>11. R!Publish(e, h, t)
  BY <1>5, <1>7, <1>8, <1>9, <1>10 DEF R!Publish, R!Changed, t
<1> QED
  BY <1>6, <1>11 DEF R!Next

LEMMA WithdrawRouting ==
  ASSUME TypeOK, OneRoutePerHost, RouteIDsUnique, DeploymentsBounded, NEW d, Withdraws(d)
  PROVE  R!Next
<1>1. /\ Withdrawn(d) /\ StepOf(d)
      /\ desiredStateReports' = desiredStateReports
      /\ deployments'[d].status # "route_pending"
  BY DEF Withdraws, Withdrawn, RouteStatus
<1>2. PICK e \in Env : e = deployments[d].env
  BY <1>1, Types DEF StepOf, Deployment
<1> DEFINE old == desiredStates[e].routes
           i == deployments[d].route
           hs == {s.host : s \in {r \in old : r.id = i}}
<1>3. /\ d \in DOMAIN deployments /\ DOMAIN deployments' = DOMAIN deployments
      /\ \A x \in DOMAIN deployments \ {d} : deployments'[x] = deployments[x]
      /\ deployments'[d].env = e
      /\ desiredStates'[e].version = desiredStates[e].version + 1
      /\ \A f \in Env \ {e} : desiredStates'[f] = desiredStates[f]
      /\ desiredStates'[e].routes = {s \in old : s.id # i}
  BY <1>1, <1>2 DEF Withdrawn, StepOf, SameForm
<1>4. Versions' = [Versions EXCEPT ![e] = @ + 1]
  BY <1>3 DEF Versions
<1>5. Waiting' = [Waiting EXCEPT ![e] = @ \ {d}]
  <2>1. \A x \in DOMAIN deployments :
          /\ deployments'[x].env = deployments[x].env
          /\ x # d => deployments'[x].status = deployments[x].status
    BY <1>2, <1>3
  <2>2. /\ DOMAIN deployments' = DOMAIN deployments /\ deployments[d].env = e
        /\ deployments'[d].status # "route_pending"
    BY <1>1, <1>2, <1>3
  <2>3. Waiting'[e] = Waiting[e] \ {d}
    BY <2>1, <2>2 DEF Waiting
  <2>4. \A f \in Env \ {e} : Waiting'[f] = Waiting[f]
    BY <2>1, <2>2 DEF Waiting
  <2> QED
    BY <2>3, <2>4 DEF Waiting
<1>6. PICK gone \in {{}} \cup {{h} : h \in Host} : gone = hs
  <2>1. CASE \A r \in old : r.id # i
    BY <2>1
  <2>2. ASSUME NEW r \in old, r.id = i
        PROVE  hs = {r.host} /\ r.host \in Host
    <3>1. r \in Route
      BY <2>2, Types DEF DesiredState
    <3>2. \A s \in old : s.id = i => s = r
      BY <2>2 DEF RouteIDsUnique
    <3> QED
      BY <2>2, <3>1, <3>2 DEF Route
  <2> QED
    BY <2>1, <2>2
<1>7. Tables' = [Tables EXCEPT ![e] = [x \in DOMAIN Tables[e] \ gone |-> Tables[e][x]]]
  <2>1. \A s \in old : s.id # i <=> s.host \notin gone
    BY <1>6 DEF OneRoutePerHost
  <2>2. /\ \A x : x \notin gone => RoutesOfHost(e, x)' = RoutesOfHost(e, x)
        /\ \A f \in Env \ {e} : \A x : RoutesOfHost(f, x)' = RoutesOfHost(f, x)
    BY <1>3, <2>1 DEF RoutesOfHost
  <2>3. /\ \A x : x \notin gone => RouteOf(e, x)' = RouteOf(e, x)
        /\ \A f \in Env \ {e} : \A x : RouteOf(f, x)' = RouteOf(f, x)
    BY <2>2 DEF RouteOf
  <2>4. {r.host : r \in desiredStates'[e].routes} = {r.host : r \in old} \ gone
    BY <1>3, <2>1
  <2>5. DOMAIN Tables[e] = {r.host : r \in old}
    BY DEF Tables
  <2> HIDE DEF old, hs
  <2>6. Tables'[e] = [x \in DOMAIN Tables[e] \ gone |-> Tables[e][x]]
    BY <2>3, <2>4, <2>5 DEF Tables, old
  <2>7. \A f \in Env \ {e} : Tables'[f] = Tables[f]
    BY <1>3, <2>3 DEF Tables
  <2> QED
    BY <2>6, <2>7 DEF Tables
<1>8. Decided' = Decided
  BY <1>1, SameDecided
<1>9. R!Withdraw(e, gone, d) /\ d \in 1..MaxDeployment
  BY <1>3, <1>4, <1>5, <1>7, <1>8 DEF R!Withdraw, R!Changed, DeploymentsBounded
<1> QED
  BY <1>9 DEF R!Next

\* A report decides the current version for everyone who waits in its environment, or
\* it decides nothing.
LEMMA DecideRouting ==
  ASSUME TypeOK, NEW e \in Env, NEW v \in ReportedVersion, NEW st \in GatewayStatus,
         ApplyDesiredStateReport(e, v, st)
  PROVE  [R!Next]_(R!vars)
<1>0. PICK n \in Nat : Stored(n, e, v, st)
  BY ReportStored
<1> DEFINE decides == v = desiredStates[e].version /\ st \in {"applied", "failed"}
<1>1. /\ DOMAIN desiredStateReports = 1..n
      /\ DOMAIN desiredStateReports' = 1..(n + 1)
      /\ \A i \in 1..n : desiredStateReports'[i] = desiredStateReports[i]
      /\ \A i \in 1..n : \A f : Decides(i, f)' <=> Decides(i, f)
      /\ desiredStateReports'[n + 1].version = v
      /\ \A f : Decides(n + 1, f)' <=> f = e /\ decides
  BY <1>0, Zenon DEF Stored
<1>2. /\ desiredStates' = desiredStates
      /\ DOMAIN deployments' = DOMAIN deployments
      /\ \A x \in DOMAIN deployments : deployments'[x] =
           IF Settles(x, e, v, st) THEN [deployments[x] EXCEPT !.status = Settled(st)]
                                   ELSE deployments[x]
  BY DEF ApplyDesiredStateReport
<1>3. v \in Int /\ desiredStates[e].version \in Nat
  BY BoundsAssumption, Types DEF DesiredState
<1>4. Tables' = Tables /\ Versions' = Versions
  BY <1>2 DEF Tables, RouteOf, RoutesOfHost, Versions
<1>5. \A x \in DOMAIN deployments :
        /\ deployments'[x].env = deployments[x].env
        /\ deployments'[x].status = "route_pending" <=>
             /\ deployments[x].status = "route_pending"
             /\ ~(deployments[x].env = e /\ decides)
  <2> SUFFICES ASSUME NEW x \in DOMAIN deployments
               PROVE  /\ deployments'[x].env = deployments[x].env
                      /\ deployments'[x].status = "route_pending" <=>
                           /\ deployments[x].status = "route_pending"
                           /\ ~(deployments[x].env = e /\ decides)
    OBVIOUS
  <2>1. Settles(x, e, v, st) <=>
          decides /\ deployments[x].env = e /\ deployments[x].status = "route_pending"
    BY <1>3 DEF Settles, Current, Stale, Invalid
  <2>2. deployments[x] \in Deployment /\ Settled(st) # "route_pending"
    BY Types DEF Settled
  <2>3. CASE Settles(x, e, v, st)
    BY <1>2, <2>1, <2>2, <2>3 DEF Deployment
  <2>4. CASE ~Settles(x, e, v, st)
    BY <1>2, <2>1, <2>4
  <2> QED
    BY <2>3, <2>4
<1> HIDE DEF decides
<1>6. ASSUME NEW f \in Env, LastDecision(f)' = LastDecision(f)
      PROVE  Decided'[f] = Decided[f]
  <2>1. PICK last : last = LastDecision(f)
    OBVIOUS
  <2>2. PICK k : k = CHOOSE i \in last : TRUE
    OBVIOUS
  <2>3. last # {} => k \in 1..n
    BY <1>1, <2>1, <2>2 DEF LastDecision
  <2>4. Decided[f] = IF last = {} THEN 0 ELSE desiredStateReports[k].version
    BY <2>1, <2>2 DEF Decided
  <2>5. Decided'[f] = IF last = {} THEN 0 ELSE desiredStateReports'[k].version
    BY <1>6, <2>1, <2>2 DEF Decided
  <2> QED
    BY <1>1, <2>3, <2>4, <2>5
<1>7. CASE ~decides
  <2>1. Waiting' = Waiting
    BY <1>2, <1>5, <1>7 DEF Waiting
  <2>2. \A f : LastDecision(f)' = LastDecision(f)
    <3> SUFFICES ASSUME NEW f PROVE LastDecision(f)' = LastDecision(f)
      OBVIOUS
    <3>1. \A i \in 1..(n + 1) : Decides(i, f)' <=> i \in 1..n /\ Decides(i, f)
      BY <1>1, <1>7
    <3>2. LastDecision(f)' = {i \in 1..(n + 1) :
             Decides(i, f)' /\ \A j \in 1..(n + 1) : Decides(j, f)' => j <= i}
      BY <1>1 DEF LastDecision
    <3>3. LastDecision(f) = {i \in 1..n :
             Decides(i, f) /\ \A j \in 1..n : Decides(j, f) => j <= i}
      BY <1>1 DEF LastDecision
    <3> QED
      BY <3>1, <3>2, <3>3
  <2>3. Decided' = Decided
    BY <1>6, <2>2 DEF Decided
  <2> QED
    BY <1>4, <2>1, <2>3 DEF R!vars
<1>8. CASE decides
  <2>1. Waiting' = [Waiting EXCEPT ![e] = {}]
    BY <1>2, <1>5, <1>8 DEF Waiting
  <2>2. LastDecision(e)' = {n + 1}
    <3>1. LastDecision(e)' = {i \in 1..(n + 1) :
             Decides(i, e)' /\ \A j \in 1..(n + 1) : Decides(j, e)' => j <= i}
      BY <1>1 DEF LastDecision
    <3>2. Decides(n + 1, e)'
      BY <1>1, <1>8
    <3> QED
      BY <3>1, <3>2
  <2>3. \A f \in Env \ {e} : LastDecision(f)' = LastDecision(f)
    <3> SUFFICES ASSUME NEW f \in Env \ {e} PROVE LastDecision(f)' = LastDecision(f)
      OBVIOUS
    <3>1. \A i \in 1..(n + 1) : Decides(i, f)' <=> i \in 1..n /\ Decides(i, f)
      BY <1>1
    <3>2. LastDecision(f)' = {i \in 1..(n + 1) :
             Decides(i, f)' /\ \A j \in 1..(n + 1) : Decides(j, f)' => j <= i}
      BY <1>1 DEF LastDecision
    <3>3. LastDecision(f) = {i \in 1..n :
             Decides(i, f) /\ \A j \in 1..n : Decides(j, f) => j <= i}
      BY <1>1 DEF LastDecision
    <3> QED
      BY <3>1, <3>2, <3>3
  <2>4. Decided'[e] = v
    BY <1>1, <2>2 DEF Decided
  <2>5. \A f \in Env \ {e} : Decided'[f] = Decided[f]
    BY <1>6, <2>3
  <2>6. Decided' = [Decided EXCEPT ![e] = Versions[e]]
    BY <1>8, <2>4, <2>5 DEF Decided, Versions, decides
  <2>7. R!Decide(e)
    BY <1>4, <2>1, <2>6 DEF R!Decide
  <2> QED
    BY <2>7 DEF R!Next
<1> QED
  BY <1>7, <1>8

LEMMA ForgetRouting == Reset => R!Forget
<1> SUFFICES ASSUME Reset PROVE R!Forget
  OBVIOUS
<1>1. Tables' = [e \in Env |-> R!NoTable]
  BY DEF Reset, Tables, R!NoTable
<1>2. Versions' = [e \in Env |-> 0] /\ Waiting' = [e \in Env |-> {}]
  BY DEF Reset, EmptyMap, Versions, Waiting
<1>3. Decided' = [e \in Env |-> 0]
  BY DEF Reset, Decided, LastDecision
<1> QED
  BY <1>1, <1>2, <1>3 DEF R!Forget

\* Whatever is deployed, stopped, removed and reported in whatever order, an environment
\* has one target per host, a version that moves with its table, and publications that
\* wait until the version then current is decided.
THEOREM StoreImplementsRouting == Spec => ImplementsRouting
<1>1. Init => DeploymentsBounded
  BY DEF Init, EmptyMap, DeploymentsBounded
<1>2. TypeOK /\ DeploymentsBounded /\ [Next]_vars => DeploymentsBounded'
  BY DeploymentsBoundedStep
<1>3. TypeOK /\ TypeOK' /\ RoutesInv /\ DeploymentsBounded /\ [Next]_vars
        => [R!Next]_(R!vars)
  <2> SUFFICES ASSUME TypeOK, TypeOK', RoutesInv, DeploymentsBounded, [Next]_vars
               PROVE  [R!Next]_(R!vars)
    OBVIOUS
  <2>1. OneRoutePerHost /\ RouteIDsUnique
    BY DEF RoutesInv
  <2>2. GatewayStep
    BY <2>1, GatewaySteps
  <2> QED
    BY <2>1, <2>2, QuietRouting, PublishRouting, WithdrawRouting, DecideRouting, ForgetRouting
       DEF GatewayStep, GatewayCall, R!Next
<1> QED
  BY <1>1, <1>2, <1>3, InitRouting, TypeCorrect, RoutesInvariant, PTL
     DEF Spec, ImplementsRouting, R!Spec

-----------------------------------------------------------------------------
\* Only a successful report of a deployment or a removal touches routes.
LEMMA RouteChange ==
  ASSUME TypeOK, OneRoutePerHost, [Next]_vars, ~Cleared', desiredStates' # desiredStates
  PROVE  /\ \E c \in DOMAIN commands :
              /\ commands[c].type \in {DeployType, RemoveType}
              /\ commands[c].status \notin FinalStatus
              /\ commands'[c].status = "succeeded"
         /\ \E e \in Env : \A f \in Env \ {e} : desiredStates'[f] = desiredStates[f]
<1>1. ~Reset
  BY DEF Reset, EmptyMap, Cleared
<1>2. PICK c \in DOMAIN commands, dIn \in 0..MaxDeployment, st \in FinalStatus, u \in Upstream :
             ReportCommand(c, dIn, st, u)
  BY <1>1 DEF Next, Call, vars, InitDeploy, CreateCommand, ClaimCommand, StartCommand,
              ApplyDesiredStateReport
<1>3. st = "succeeded" /\ commands[c].type \in {DeployType, RemoveType}
  BY <1>2 DEF ReportCommand, ApplyFailed, ApplySucceeded, StopSucceeded
<1>4. commands[c].status \notin FinalStatus /\ commands'[c].status = "succeeded"
  <2>1. commands[c] \in Command
    BY DEF TypeOK
  <2>2. /\ commands' = [commands EXCEPT ![c].status = st]
        /\ commands[c].status \in {"claimed", "running"}
    BY <1>2 DEF ReportCommand, Reportable
  <2> QED
    BY <1>3, <2>1, <2>2 DEF Command, FinalStatus
<1>5. \E e \in Env : \A f \in Env \ {e} : desiredStates'[f] = desiredStates[f]
  <2>1. ~RoutesForgotten
    BY DEF RoutesForgotten, Cleared
  <2>2. PICK d : StepOf(d)
    BY <2>1, RouteSteps DEF SomeRouteStep, NoRouteStep, Published, Withdrawn
  <2>3. deployments[d].env \in Env
    BY <2>2, Types DEF StepOf, Deployment
  <2> QED
    BY <2>2, <2>3 DEF StepOf
<1> QED
  BY <1>3, <1>4, <1>5

\* Nothing but the success of a command that was in flight changes what gateways are
\* told, and in one environment at a time (applySucceeded).
THEOREM RoutesChangeOnSuccess == Spec => RoutesChangeBySuccess
<1>1. TypeOK /\ OneRoutePerHost /\ [Next]_vars =>
        (~Cleared' /\ desiredStates' # desiredStates =>
           /\ \E c \in DOMAIN commands :
                /\ commands[c].type \in {DeployType, RemoveType}
                /\ commands[c].status \notin FinalStatus
                /\ commands'[c].status = "succeeded"
           /\ \E e \in Env : \A f \in Env \ {e} : desiredStates'[f] = desiredStates[f])
  BY RouteChange
<1> QED
  BY <1>1, TypeCorrect, UniqueHosts, PTL DEF Spec, RoutesChangeBySuccess

=============================================================================
