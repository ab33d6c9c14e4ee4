---------------------------- MODULE RouteProofs ----------------------------
(***************************************************************************)
(* The published routes, for every instance: one per environment and host, *)
(* each owned by the deployment that reported its upstream, with IDs and   *)
(* versions that agree with the counters.                                  *)
(*                                                                         *)
(* None of these is inductive alone: that a retargeted route leaves its    *)
(* other deployment nothing needs the uniqueness of hosts, that a removal  *)
(* takes the right route needs the uniqueness of IDs, and both need the    *)
(* owner.  Together with TypeOK they are (RoutesInv).                      *)
(***************************************************************************)
EXTENDS StoreProofs

RoutesInv ==
  /\ OneRoutePerHost
  /\ RouteIDsUnique
  /\ RouteOwner
  /\ RouteStatusNamesRoute
  /\ VersionsAgree

-----------------------------------------------------------------------------
(***************************************************************************)
(* The four ways in which a step can treat routes.                         *)
(***************************************************************************)
SameForm(d) ==
  /\ deployments'[d].env = deployments[d].env
  /\ deployments'[d].host = deployments[d].host
  /\ deployments'[d].requiresRoute = deployments[d].requiresRoute

KeepsRoute(d) ==
  /\ SameForm(d)
  /\ deployments'[d].route = deployments[d].route
  /\ deployments'[d].upstream = deployments[d].upstream \/ ~WantsRoute(d)
  /\ deployments'[d].status \in RouteStatus => deployments[d].status \in RouteStatus

\* Routes stay as they are; a deployment that comes in has none.
NoRouteStep ==
  /\ desiredStates' = desiredStates
  /\ counters'.route = counters.route /\ counters'.version = counters.version
  /\ DOMAIN deployments \subseteq DOMAIN deployments'
  /\ \A d \in DOMAIN deployments : KeepsRoute(d)
  /\ \A d \in DOMAIN deployments' \ DOMAIN deployments :
       deployments'[d].route = NoID /\ deployments'[d].status \notin RouteStatus

\* Only d and its environment change, and the version moves on.
StepOf(d) ==
  LET e == deployments[d].env
  IN /\ d \in DOMAIN deployments
     /\ SameForm(d)
     /\ DOMAIN deployments' = DOMAIN deployments
     /\ \A x \in DOMAIN deployments \ {d} : deployments'[x] = deployments[x]
     /\ desiredStates'[e].version = desiredStates[e].version + 1
     /\ counters'.version[e] = desiredStates[e].version + 1
     /\ \A f \in Env \ {e} : /\ desiredStates'[f] = desiredStates[f]
                             /\ counters'.version[f] = counters.version[f]

\* The route of the host is r2 from now on, new or with the ID it had.
Published(d, r2) ==
  LET e == deployments[d].env
      h == deployments[d].host
  IN /\ StepOf(d)
     /\ WantsRoute(d)
     /\ desiredStates'[e].routes = {s \in desiredStates[e].routes : s.host # h} \cup {r2}
     /\ r2.host = h /\ r2.deployment = d
     /\ r2.id = deployments'[d].route /\ r2.upstream = deployments'[d].upstream
     /\ \/ r2.id = counters.route + 1 /\ counters'.route = counters.route + 1
        \/ /\ \E r \in desiredStates[e].routes : r.host = h /\ r.id = r2.id
           /\ counters'.route = counters.route

Withdrawn(d) ==
  LET e == deployments[d].env
  IN /\ StepOf(d)
     /\ desiredStates'[e].routes = {s \in desiredStates[e].routes : s.id # deployments[d].route}
     /\ deployments'[d].route = NoID /\ deployments'[d].status \notin RouteStatus
     /\ counters'.route = counters.route

RoutesForgotten ==
  /\ DOMAIN commands' = {}
  /\ DOMAIN deployments' = {}
  /\ \A e \in Env : desiredStates'[e].version = 0 /\ desiredStates'[e].routes = {}
  /\ \A e \in Env : counters'.version[e] = 0

-----------------------------------------------------------------------------
LEMMA NoRouteStepInv ==
  ASSUME TypeOK, RoutesInv, NoRouteStep
  PROVE  RoutesInv'
<1>1. /\ \A e \in Env : desiredStates[e].routes \subseteq Route
      /\ DOMAIN deployments \subseteq DOMAIN deployments'
      /\ desiredStates' = desiredStates
      /\ counters'.route = counters.route /\ counters'.version = counters.version
  BY DEF TypeOK, DesiredState, NoRouteStep
<1>2. OneRoutePerHost' /\ RouteIDsUnique' /\ VersionsAgree'
  BY <1>1 DEF RoutesInv, OneRoutePerHost, RouteIDsUnique, VersionsAgree
<1>3. RouteOwner'
  BY <1>1 DEF RoutesInv, RouteOwner, NoRouteStep, KeepsRoute, SameForm, WantsRoute
<1>4. RouteStatusNamesRoute'
  BY <1>1 DEF RoutesInv, RouteStatusNamesRoute, NoRouteStep, KeepsRoute, SameForm, WantsRoute
<1> QED
  BY <1>2, <1>3, <1>4 DEF RoutesInv

LEMMA PublishedInv ==
  ASSUME TypeOK, RoutesInv, NEW d, NEW r2, Published(d, r2)
  PROVE  RoutesInv'
<1> DEFINE e == deployments[d].env
           h == deployments[d].host
           old == desiredStates[e].routes
<1>1. /\ d \in DOMAIN deployments /\ DOMAIN deployments' = DOMAIN deployments
      /\ deployments'[d].env = e /\ deployments'[d].host = h
      /\ WantsRoute(d) /\ WantsRoute(d)'
      /\ \A x \in DOMAIN deployments \ {d} : deployments'[x] = deployments[x]
      /\ \A x \in DOMAIN deployments : deployments'[x].env = deployments[x].env
      /\ \A x \in DOMAIN deployments : WantsRoute(x) => WantsRoute(x)'
  BY DEF Published, StepOf, SameForm, WantsRoute
<1>2. /\ e \in Env
      /\ \A f \in Env : desiredStates[f].version \in Nat
      /\ counters.route \in Nat
  BY <1>1 DEF TypeOK, Deployment, DesiredState, Counters
<1>3. /\ desiredStates'[e].routes = {s \in old : s.host # h} \cup {r2}
      /\ desiredStates'[e].version = desiredStates[e].version + 1
      /\ counters'.version[e] = desiredStates[e].version + 1
      /\ \A f \in Env \ {e} : /\ desiredStates'[f] = desiredStates[f]
                              /\ counters'.version[f] = counters.version[f]
  BY DEF Published, StepOf
<1>4. /\ r2.host = h /\ r2.deployment = d
      /\ r2.id = deployments'[d].route /\ r2.upstream = deployments'[d].upstream
  BY DEF Published
<1>5. \/ r2.id = counters.route + 1 /\ counters'.route = counters.route + 1
      \/ (\E r \in old : r.host = h /\ r.id = r2.id) /\ counters'.route = counters.route
  BY DEF Published
<1>6. /\ OneRoutePerHost /\ RouteIDsUnique /\ RouteOwner /\ RouteStatusNamesRoute
      /\ VersionsAgree
  BY DEF RoutesInv
<1> HIDE DEF e, h, old
\* A route other than r2 was there before, for another host or in another environment.
<1>7. ASSUME NEW f \in Env, NEW s \in desiredStates'[f].routes
      PROVE  \/ f = e /\ s = r2
             \/ s \in desiredStates[f].routes /\ (f = e => s.host # h)
  BY <1>3, <1>7 DEF old
<1>8. ASSUME NEW f \in Env, NEW s \in desiredStates[f].routes, f = e => s.host # h
      PROVE  s.id # r2.id /\ s.id \in 1..counters.route /\ s.deployment # d
  <2>1. s.id \in 1..counters.route
    BY <1>6 DEF RouteIDsUnique
  <2>2. s.id # r2.id
    <3>1. CASE r2.id = counters.route + 1
      BY <1>2, <2>1, <3>1
    <3>2. ASSUME NEW r \in old, r.host = h, r.id = r2.id
          PROVE  s.id # r2.id
      BY <1>2, <1>6, <1>8, <3>2 DEF RouteIDsUnique, old
    <3> QED
      BY <1>5, <3>1, <3>2
  <2>3. s.deployment # d
    BY <1>6, <1>8 DEF RouteOwner, e, h
  <2> QED
    BY <2>1, <2>2, <2>3
<1>9. r2.id \in 1..counters'.route /\ counters'.route \in Nat /\ counters.route <= counters'.route
  <2>1. \A r \in old : r.id \in 1..counters.route
    BY <1>2, <1>6 DEF RouteIDsUnique, old
  <2> QED
    BY <1>2, <1>5, <2>1
<1>10. OneRoutePerHost'
  BY <1>4, <1>6, <1>7 DEF OneRoutePerHost
<1>11. RouteIDsUnique'
  <2>1. ASSUME NEW f \in Env, NEW s \in desiredStates'[f].routes
        PROVE  s.id \in 1..counters'.route
    BY <1>2, <1>7, <1>8, <1>9, <2>1
  <2>2. ASSUME NEW f \in Env, NEW g \in Env, NEW r \in desiredStates'[f].routes,
               NEW s \in desiredStates'[g].routes, r.id = s.id
        PROVE  f = g /\ r = s
    <3>1. CASE f = e /\ r = r2
      BY <1>7, <1>8, <2>2, <3>1
    <3>2. CASE g = e /\ s = r2
      BY <1>7, <1>8, <2>2, <3>2
    <3>3. CASE r \in desiredStates[f].routes /\ s \in desiredStates[g].routes
      BY <1>6, <2>2, <3>3 DEF RouteIDsUnique
    <3> QED
      BY <1>7, <3>1, <3>2, <3>3
  <2> QED
    BY <2>1, <2>2 DEF RouteIDsUnique
<1>12. RouteOwner'
  <2> SUFFICES ASSUME NEW f \in Env, NEW s \in desiredStates'[f].routes
               PROVE  /\ s.deployment \in DOMAIN deployments'
                      /\ WantsRoute(s.deployment)'
                      /\ deployments'[s.deployment].env = f
                      /\ deployments'[s.deployment].host = s.host
                      /\ deployments'[s.deployment].route = s.id
                      /\ deployments'[s.deployment].upstream = s.upstream
    BY DEF RouteOwner
  <2>1. CASE f = e /\ s = r2
    BY <1>1, <1>4, <2>1
  <2>2. CASE s \in desiredStates[f].routes /\ (f = e => s.host # h)
    BY <1>1, <1>6, <1>8, <2>2 DEF RouteOwner
  <2> QED
    BY <1>7, <2>1, <2>2
<1>13. RouteStatusNamesRoute'
  <2> SUFFICES ASSUME NEW x \in DOMAIN deployments
               PROVE  /\ deployments'[x].status \in RouteStatus => deployments'[x].route # NoID
                      /\ deployments'[x].route # NoID =>
                           /\ WantsRoute(x)'
                           /\ deployments'[x].route <= counters'.route
                           /\ desiredStates'[deployments'[x].env].version > 0
    BY <1>1 DEF RouteStatusNamesRoute
  <2>0. deployments[x].env \in Env /\ deployments[x].route \in Nat
    BY DEF TypeOK, Deployment
  <2>1. CASE x = d
    <3>1. deployments'[x].route = r2.id /\ r2.id # NoID /\ r2.id <= counters'.route
      BY <1>4, <1>9, <2>1 DEF NoID
    <3>2. WantsRoute(x)' /\ desiredStates'[deployments'[x].env].version > 0
      BY <1>1, <1>2, <1>3, <2>1
    <3> QED
      BY <3>1, <3>2
  <2>2. CASE x # d
    <3>1. \A f \in Env : desiredStates[f].version > 0 => desiredStates'[f].version > 0
      BY <1>2, <1>3
    <3>2. deployments'[x] = deployments[x]
      BY <1>1, <2>2
    <3> QED
      BY <1>1, <1>2, <1>6, <1>9, <2>0, <3>1, <3>2 DEF RouteStatusNamesRoute
  <2> QED
    BY <2>1, <2>2
<1>14. VersionsAgree'
  BY <1>2, <1>3, <1>6 DEF VersionsAgree
<1> QED
  BY <1>10, <1>11, <1>12, <1>13, <1>14 DEF RoutesInv

LEMMA WithdrawnInv ==
  ASSUME TypeOK, RoutesInv, NEW d, Withdrawn(d)
  PROVE  RoutesInv'
<1> DEFINE e == deployments[d].env
           old == desiredStates[e].routes
<1>1. /\ d \in DOMAIN deployments /\ DOMAIN deployments' = DOMAIN deployments
      /\ \A x \in DOMAIN deployments \ {d} : deployments'[x] = deployments[x]
      /\ deployments'[d].route = NoID /\ deployments'[d].status \notin RouteStatus
      /\ \A x \in DOMAIN deployments : WantsRoute(x) => WantsRoute(x)'
  BY DEF Withdrawn, StepOf, SameForm, WantsRoute
<1>2. /\ e \in Env
      /\ \A f \in Env : desiredStates[f].version \in Nat
  BY <1>1 DEF TypeOK, Deployment, DesiredState
<1>3. /\ desiredStates'[e].routes = {s \in old : s.id # deployments[d].route}
      /\ desiredStates'[e].version = desiredStates[e].version + 1
      /\ counters'.version[e] = desiredStates[e].version + 1
      /\ \A f \in Env \ {e} : /\ desiredStates'[f] = desiredStates[f]
                              /\ counters'.version[f] = counters.version[f]
      /\ counters'.route = counters.route
  BY DEF Withdrawn, StepOf
<1>4. /\ OneRoutePerHost /\ RouteIDsUnique /\ RouteOwner /\ RouteStatusNamesRoute
      /\ VersionsAgree
  BY DEF RoutesInv
<1> HIDE DEF e, old
<1>5. ASSUME NEW f \in Env, NEW s \in desiredStates'[f].routes
      PROVE  s \in desiredStates[f].routes /\ s.deployment # d
  BY <1>2, <1>3, <1>4, <1>5 DEF RouteOwner, e, old
<1>6. OneRoutePerHost' /\ RouteIDsUnique'
  BY <1>3, <1>4, <1>5 DEF OneRoutePerHost, RouteIDsUnique
<1>7. RouteOwner'
  BY <1>1, <1>4, <1>5 DEF RouteOwner
<1>8. RouteStatusNamesRoute'
  <2> SUFFICES ASSUME NEW x \in DOMAIN deployments \ {d}
               PROVE  /\ deployments'[x].status \in RouteStatus => deployments'[x].route # NoID
                      /\ deployments'[x].route # NoID =>
                           /\ WantsRoute(x)'
                           /\ deployments'[x].route <= counters'.route
                           /\ desiredStates'[deployments'[x].env].version > 0
    BY <1>1 DEF RouteStatusNamesRoute
  <2>1. deployments[x].env \in Env
    BY DEF TypeOK, Deployment
  <2>2. \A f \in Env : desiredStates[f].version > 0 => desiredStates'[f].version > 0
    BY <1>2, <1>3
  <2> QED
    BY <1>1, <1>3, <1>4, <2>1, <2>2 DEF RouteStatusNamesRoute
<1>9. VersionsAgree'
  BY <1>2, <1>3, <1>4 DEF VersionsAgree
<1> QED
  BY <1>6, <1>7, <1>8, <1>9 DEF RoutesInv

LEMMA RoutesForgottenInv ==
  ASSUME RoutesForgotten
  PROVE  RoutesInv'
BY DEF RoutesForgotten, RoutesInv, OneRoutePerHost, RouteIDsUnique, RouteOwner,
       RouteStatusNamesRoute, VersionsAgree

-----------------------------------------------------------------------------
(***************************************************************************)
(* Every step of the store is one of the four.                             *)
(***************************************************************************)
SomeRouteStep ==
  \/ NoRouteStep
  \/ \E d, r2 : Published(d, r2)
  \/ \E d : Withdrawn(d)
  \/ RoutesForgotten

LEMMA Types ==
  ASSUME TypeOK
  PROVE  /\ DOMAIN deployments = 1..counters.deployment /\ counters.deployment \in Nat
         /\ NextDeployment \notin DOMAIN deployments
         /\ \A d \in DOMAIN deployments : deployments[d] \in Deployment
         /\ desiredStates \in [Env -> DesiredState]
         /\ counters \in Counters
<1>1. counters \in Counters
  BY DEF TypeOK
<1>2. counters.deployment \in Nat /\ NextDeployment = counters.deployment + 1
  BY <1>1 DEF Counters, NextDeployment
<1>3. deployments \in [1..counters.deployment -> Deployment]
      /\ desiredStates \in [Env -> DesiredState]
  BY DEF TypeOK
<1>4. DOMAIN deployments = 1..counters.deployment
  BY <1>3
<1>5. NextDeployment \notin DOMAIN deployments
  BY <1>2, <1>4
<1>6. \A d \in DOMAIN deployments : deployments[d] \in Deployment
  BY <1>3
<1> QED
  BY <1>1, <1>2, <1>3, <1>4, <1>5, <1>6

\* A step that leaves routes and counters alone and changes no more than statuses, none
\* of them into one that speaks of a route.
LEMMA StatusStep ==
  ASSUME TypeOK, UNCHANGED <<desiredStates, counters>>,
         DOMAIN deployments' = DOMAIN deployments,
         \A d \in DOMAIN deployments :
           \/ deployments'[d] = deployments[d]
           \/ \E st : /\ deployments'[d] = [deployments[d] EXCEPT !.status = st]
                      /\ st \in RouteStatus => deployments[d].status \in RouteStatus
  PROVE  NoRouteStep
<1> SUFFICES ASSUME NEW d \in DOMAIN deployments PROVE KeepsRoute(d)
  BY DEF NoRouteStep
<1>1. deployments[d] \in Deployment
  BY Types
<1> QED
  BY <1>1 DEF KeepsRoute, SameForm, Deployment

LEMMA InitDeployRoutes ==
  ASSUME TypeOK, NEW e \in Env, NEW h \in Host \cup {NoHost}, NEW rr \in BOOLEAN,
         NEW a \in Agent, InitDeploy(e, h, rr, a)
  PROVE  NoRouteStep
<1> DEFINE dep == [env |-> e, host |-> h, requiresRoute |-> rr, target |-> a,
                   command |-> NextCommand, status |-> "command_created",
                   upstream |-> NoUpstream, route |-> NoID]
<1>1. /\ dep.route = NoID /\ dep.status \notin RouteStatus
  BY DEF RouteStatus
<1>2. deployments' = Put(deployments, NextDeployment, dep)
  BY DEF InitDeploy
<1> HIDE DEF dep
<1>3. /\ DOMAIN deployments' = DOMAIN deployments \cup {NextDeployment}
      /\ \A d \in DOMAIN deployments : deployments'[d] = deployments[d]
      /\ deployments'[NextDeployment] = dep
  BY <1>2, Types DEF Put
<1>4. desiredStates' = desiredStates
  BY DEF InitDeploy
<1>5. counters'.route = counters.route /\ counters'.version = counters.version
  BY Types DEF InitDeploy, Counters
<1> QED
  BY <1>1, <1>3, <1>4, <1>5 DEF NoRouteStep, KeepsRoute, SameForm

LEMMA CreateCommandRoutes ==
  ASSUME TypeOK, NEW t, NEW d, NEW a, CreateCommand(t, d, a)
  PROVE  NoRouteStep
<1>1. counters'.route = counters.route /\ counters'.version = counters.version
  BY Types DEF CreateCommand, Counters
<1> QED
  BY <1>1 DEF CreateCommand, NoRouteStep, KeepsRoute, SameForm

LEMMA StartCommandRoutes ==
  ASSUME TypeOK, NEW c \in DOMAIN commands, NEW a, StartCommand(c, a)
  PROVE  NoRouteStep
<1>1. /\ DOMAIN deployments' = DOMAIN deployments
      /\ \A d \in DOMAIN deployments :
           \/ deployments'[d] = deployments[d]
           \/ deployments'[d] = [deployments[d] EXCEPT !.status = "deploying"]
  BY DEF StartCommand
<1>2. "deploying" \notin RouteStatus /\ UNCHANGED <<desiredStates, counters>>
  BY DEF RouteStatus, StartCommand
<1> QED
  BY <1>1, <1>2, StatusStep

LEMMA DesiredStateReportRoutes ==
  ASSUME TypeOK, NEW e, NEW v, NEW st, ApplyDesiredStateReport(e, v, st)
  PROVE  NoRouteStep
<1>1. /\ DOMAIN deployments' = DOMAIN deployments
      /\ \A d \in DOMAIN deployments :
           \/ deployments'[d] = deployments[d]
           \/ /\ deployments'[d] = [deployments[d] EXCEPT !.status = Settled(st)]
              /\ deployments[d].status \in RouteStatus
  BY DEF ApplyDesiredStateReport, Settles, RouteStatus
<1>2. UNCHANGED <<desiredStates, counters>>
  BY DEF ApplyDesiredStateReport
<1> QED
  BY <1>1, <1>2, StatusStep

\* How BumpedState and the counters move, read off pointwise.
LEMMA BumpedVersion ==
  ASSUME TypeOK, NEW d \in DOMAIN deployments, NEW rs,
         desiredStates' = BumpedState(deployments[d].env, rs),
         counters' = [counters EXCEPT
           !.version[deployments[d].env] = desiredStates[deployments[d].env].version + 1]
  PROVE  LET e == deployments[d].env
         IN /\ desiredStates'[e].routes = rs
            /\ desiredStates'[e].version = desiredStates[e].version + 1
            /\ counters'.version[e] = desiredStates[e].version + 1
            /\ \A f \in Env \ {e} : /\ desiredStates'[f] = desiredStates[f]
                                    /\ counters'.version[f] = counters.version[f]
            /\ counters'.route = counters.route
<1> DEFINE e == deployments[d].env
           n == desiredStates[e].version + 1
<1>1. e \in Env /\ counters \in Counters
  BY Types DEF Deployment
<1>2. /\ desiredStates'[e].routes = rs
      /\ desiredStates'[e].version = n
      /\ \A f \in Env \ {e} : desiredStates'[f] = desiredStates[f]
  BY <1>1, Types DEF BumpedState
<1>3. counters' = [counters EXCEPT !.version[e] = n]
  OBVIOUS
<1>4. /\ counters'.version[e] = n
      /\ \A f \in Env \ {e} : counters'.version[f] = counters.version[f]
      /\ counters'.route = counters.route
  <2> HIDE DEF e, n
  <2> QED
    BY <1>1, <1>3 DEF Counters
<1> QED
  BY <1>2, <1>4

\* The same of a step that issues a route ID.
LEMMA Bumped ==
  ASSUME TypeOK, NEW d \in DOMAIN deployments, NEW rs, NEW k,
         desiredStates' = BumpedState(deployments[d].env, rs),
         counters' = [counters EXCEPT
           !.version[deployments[d].env] = desiredStates[deployments[d].env].version + 1,
           !.route = k]
  PROVE  LET e == deployments[d].env
         IN /\ desiredStates'[e].routes = rs
            /\ desiredStates'[e].version = desiredStates[e].version + 1
            /\ counters'.version[e] = desiredStates[e].version + 1
            /\ \A f \in Env \ {e} : /\ desiredStates'[f] = desiredStates[f]
                                    /\ counters'.version[f] = counters.version[f]
            /\ counters'.route = k
<1> DEFINE e == deployments[d].env
           n == desiredStates[e].version + 1
<1>1. e \in Env /\ counters \in Counters
  BY Types DEF Deployment
<1>2. /\ desiredStates'[e].routes = rs
      /\ desiredStates'[e].version = n
      /\ \A f \in Env \ {e} : desiredStates'[f] = desiredStates[f]
  BY <1>1, Types DEF BumpedState
<1>3. counters' = [counters EXCEPT !.version[e] = n, !.route = k]
  OBVIOUS
<1>4. /\ counters'.version[e] = n
      /\ \A f \in Env \ {e} : counters'.version[f] = counters.version[f]
      /\ counters'.route = k
  <2> HIDE DEF e, n
  <2> QED
    BY <1>1, <1>3 DEF Counters
<1> QED
  BY <1>2, <1>4

LEMMA DeployRoutes ==
  ASSUME TypeOK, OneRoutePerHost, NEW d \in DOMAIN deployments, NEW u, DeploySucceeded(d, u)
  PROVE  NoRouteStep \/ \E r2 : Published(d, r2)
<1> DEFINE e == deployments[d].env
           h == deployments[d].host
           old == desiredStates[e].routes
<1>1. deployments[d] \in Deployment
  BY Types
<1>2. CASE /\ ~WantsRoute(d)
           /\ deployments' = [deployments EXCEPT ![d].status = "healthy", ![d].upstream = u]
           /\ UNCHANGED <<desiredStates, counters>>
  <2>1. \A x \in DOMAIN deployments : KeepsRoute(x)
    BY <1>1, <1>2 DEF KeepsRoute, SameForm, Deployment, RouteStatus
  <2> QED
    BY <1>2, <2>1 DEF NoRouteStep
<1>3. ASSUME NEW i, WantsRoute(d),
             deployments' = [deployments EXCEPT ![d].status = "route_pending",
                                                ![d].upstream = u, ![d].route = i]
      PROVE  /\ SameForm(d) /\ DOMAIN deployments' = DOMAIN deployments
             /\ \A x \in DOMAIN deployments \ {d} : deployments'[x] = deployments[x]
             /\ deployments'[d].route = i /\ deployments'[d].upstream = u
  BY <1>1, <1>3 DEF SameForm, Deployment
<1>4. ASSUME NEW r \in RoutesOfHost(e, h), WantsRoute(d), RetargetRoute(d, u, r),
             deployments' = [deployments EXCEPT ![d].status = "route_pending",
                                                ![d].upstream = u, ![d].route = r.id]
      PROVE  \E r2 : Published(d, r2)
  <2> DEFINE r2 == [r EXCEPT !.upstream = u, !.deployment = d]
  <2>1. r \in old /\ r.host = h
    BY DEF RoutesOfHost
  <2>2. r \in Route
    BY <1>1, <2>1, Types DEF Deployment, DesiredState
  <2>3. r2.id = r.id /\ r2.host = h /\ r2.upstream = u /\ r2.deployment = d
    BY <2>1, <2>2 DEF Route
  <2>4. old \ {r} = {s \in old : s.host # h}
    BY <1>1, <2>1 DEF OneRoutePerHost, Deployment
  <2>5. /\ desiredStates' = BumpedState(e, (old \ {r}) \cup {r2})
        /\ counters' = [counters EXCEPT !.version[e] = desiredStates[e].version + 1]
    BY <1>4 DEF RetargetRoute
  <2> HIDE DEF r2
  <2>6. /\ desiredStates'[e].routes = (old \ {r}) \cup {r2}
        /\ desiredStates'[e].version = desiredStates[e].version + 1
        /\ counters'.version[e] = desiredStates[e].version + 1
        /\ \A f \in Env \ {e} : /\ desiredStates'[f] = desiredStates[f]
                                /\ counters'.version[f] = counters.version[f]
        /\ counters'.route = counters.route
    BY <2>5, BumpedVersion
  <2>7. Published(d, r2)
    BY <1>3, <1>4, <2>1, <2>3, <2>4, <2>6 DEF Published, StepOf
  <2> QED
    BY <2>7
<1>5. CASE /\ WantsRoute(d) /\ RoutesOfHost(e, h) = {} /\ AddRoute(d, u)
           /\ deployments' = [deployments EXCEPT ![d].status = "route_pending",
                                                 ![d].upstream = u, ![d].route = NextRoute]
  <2> DEFINE r2 == [id |-> NextRoute, host |-> h, upstream |-> u, deployment |-> d]
  <2>1. old = {s \in old : s.host # h}
    BY <1>5 DEF RoutesOfHost
  <2>2. /\ desiredStates' = BumpedState(e, old \cup {r2})
        /\ counters' = [counters EXCEPT !.version[e] = desiredStates[e].version + 1,
                                        !.route = NextRoute]
    BY <1>5 DEF AddRoute
  <2>3. r2.id = NextRoute /\ r2.host = h /\ r2.upstream = u /\ r2.deployment = d
    OBVIOUS
  <2> HIDE DEF r2
  <2>4. /\ desiredStates'[e].routes = old \cup {r2}
        /\ desiredStates'[e].version = desiredStates[e].version + 1
        /\ counters'.version[e] = desiredStates[e].version + 1
        /\ \A f \in Env \ {e} : /\ desiredStates'[f] = desiredStates[f]
                                /\ counters'.version[f] = counters.version[f]
        /\ counters'.route = NextRoute
    BY <2>2, Bumped, ZenonT(30)
  <2>5. Published(d, r2)
    BY <1>3, <1>5, <2>1, <2>3, <2>4 DEF Published, StepOf, NextRoute
  <2> QED
    BY <2>5
<1> QED
  BY <1>2, <1>4, <1>5 DEF DeploySucceeded

LEMMA RemoveRoutes ==
  ASSUME TypeOK, NEW d \in DOMAIN deployments, RemoveSucceeded(d)
  PROVE  NoRouteStep \/ Withdrawn(d)
<1> DEFINE e == deployments[d].env
<1>1. deployments[d] \in Deployment
  BY Types
<1>2. /\ SameForm(d) /\ DOMAIN deployments' = DOMAIN deployments
      /\ \A x \in DOMAIN deployments \ {d} : deployments'[x] = deployments[x]
      /\ deployments'[d].route = NoID /\ deployments'[d].status \notin RouteStatus
      /\ deployments'[d].upstream = deployments[d].upstream
  BY <1>1 DEF RemoveSucceeded, SameForm, Deployment, RouteStatus
<1>3. CASE deployments[d].route = NoID /\ UNCHANGED <<desiredStates, counters>>
  BY <1>2, <1>3 DEF NoRouteStep, KeepsRoute, SameForm
<1>4. CASE RemoveRoute(e, deployments[d].route)
  <2> DEFINE rs == RemainingRoutes(e, deployments[d].route)
  <2>1. /\ desiredStates' = BumpedState(e, rs)
        /\ counters' = [counters EXCEPT !.version[e] = desiredStates[e].version + 1]
    BY <1>4 DEF RemoveRoute
  <2>2. rs = {s \in desiredStates[e].routes : s.id # deployments[d].route}
    BY DEF RemainingRoutes
  <2> HIDE DEF rs
  <2>3. /\ desiredStates'[e].routes = rs
        /\ desiredStates'[e].version = desiredStates[e].version + 1
        /\ counters'.version[e] = desiredStates[e].version + 1
        /\ \A f \in Env \ {e} : /\ desiredStates'[f] = desiredStates[f]
                                /\ counters'.version[f] = counters.version[f]
        /\ counters'.route = counters.route
    BY <2>1, BumpedVersion
  <2>4. Withdrawn(d)
    BY <1>2, <2>2, <2>3 DEF Withdrawn, StepOf
  <2> QED
    BY <2>4
<1> QED
  BY <1>3, <1>4 DEF RemoveSucceeded

LEMMA ReportCommandRoutes ==
  ASSUME TypeOK, OneRoutePerHost, NEW c \in DOMAIN commands, NEW dIn, NEW st, NEW u,
         ReportCommand(c, dIn, st, u)
  PROVE  SomeRouteStep
<1> DEFINE d == EffectiveDeployment(c, dIn)
<1>1. CASE ApplyFailed(c, d)
  <2>1. /\ DOMAIN deployments' = DOMAIN deployments
        /\ \A x \in DOMAIN deployments :
             \/ deployments'[x] = deployments[x]
             \/ deployments'[x] = [deployments[x] EXCEPT !.status = "failed"]
    BY <1>1 DEF ApplyFailed
  <2>2. "failed" \notin RouteStatus /\ UNCHANGED <<desiredStates, counters>>
    BY <1>1 DEF RouteStatus, ApplyFailed
  <2> QED
    BY <2>1, <2>2, StatusStep DEF SomeRouteStep
<1>2. CASE d \in DOMAIN deployments /\ DeploySucceeded(d, u)
  BY <1>2, DeployRoutes DEF SomeRouteStep
<1>3. CASE d \in DOMAIN deployments /\ StopSucceeded(d)
  <2>1. /\ DOMAIN deployments' = DOMAIN deployments
        /\ \A x \in DOMAIN deployments :
             \/ deployments'[x] = deployments[x]
             \/ deployments'[x] = [deployments[x] EXCEPT !.status = "removed"]
    BY <1>3 DEF StopSucceeded
  <2>2. "removed" \notin RouteStatus /\ UNCHANGED <<desiredStates, counters>>
    BY <1>3 DEF RouteStatus, StopSucceeded
  <2> QED
    BY <2>1, <2>2, StatusStep DEF SomeRouteStep
<1>4. CASE d \in DOMAIN deployments /\ RemoveSucceeded(d)
  BY <1>4, RemoveRoutes DEF SomeRouteStep
<1>5. CASE UNCHANGED <<deployments, desiredStates, counters>>
  BY <1>5 DEF NoRouteStep, KeepsRoute, SameForm, SomeRouteStep
<1> QED
  BY <1>1, <1>2, <1>3, <1>4, <1>5 DEF ReportCommand, ApplySucceeded

LEMMA RouteSteps ==
  ASSUME TypeOK, OneRoutePerHost, [Next]_vars
  PROVE  SomeRouteStep
<1>1. ASSUME NEW e \in Env, NEW h \in Host \cup {NoHost}, NEW rr \in BOOLEAN, NEW a \in Agent,
             InitDeploy(e, h, rr, a)
      PROVE  NoRouteStep
  BY <1>1, InitDeployRoutes
<1>2. ASSUME NEW t, NEW d, NEW a, CreateCommand(t, d, a)
      PROVE  NoRouteStep
  BY <1>2, CreateCommandRoutes
<1>3. ASSUME NEW c \in DOMAIN commands, NEW a, ClaimCommand(c, a) \/ StartCommand(c, a)
      PROVE  NoRouteStep
  BY <1>3, StartCommandRoutes DEF ClaimCommand, NoRouteStep, KeepsRoute, SameForm
<1>4. ASSUME NEW c \in DOMAIN commands, NEW dIn, NEW st, NEW u, ReportCommand(c, dIn, st, u)
      PROVE  SomeRouteStep
  BY <1>4, ReportCommandRoutes
<1>5. ASSUME NEW e, NEW v, NEW st, ApplyDesiredStateReport(e, v, st)
      PROVE  NoRouteStep
  BY <1>5, DesiredStateReportRoutes
<1>6. CASE Reset
  BY <1>6 DEF Reset, EmptyMap, RoutesForgotten, SomeRouteStep
<1>7. CASE UNCHANGED vars
  BY <1>7 DEF vars, NoRouteStep, KeepsRoute, SameForm, SomeRouteStep
<1> QED
  BY <1>1, <1>2, <1>3, <1>4, <1>5, <1>6, <1>7 DEF Next, Call, SomeRouteStep

-----------------------------------------------------------------------------
LEMMA InitRoutes == Init => RoutesInv
BY DEF Init, EmptyMap, RoutesInv, OneRoutePerHost, RouteIDsUnique, RouteOwner,
       RouteStatusNamesRoute, VersionsAgree

LEMMA RoutesStep ==
  ASSUME TypeOK, RoutesInv, [Next]_vars
  PROVE  RoutesInv'
<1>1. SomeRouteStep
  BY RouteSteps DEF RoutesInv
<1> QED
  BY <1>1, NoRouteStepInv, PublishedInv, WithdrawnInv, RoutesForgottenInv DEF SomeRouteStep

LEMMA RoutesInvariant == Spec => []RoutesInv
<1>1. TypeOK /\ RoutesInv /\ [Next]_vars => RoutesInv'
  BY RoutesStep
<1> QED
  BY <1>1, InitRoutes, TypeCorrect, PTL DEF Spec

\* Redeploying, stopping and removing in any order never leaves two routes for one host
\* of an environment (upsertRoute).
THEOREM UniqueHosts == Spec => []OneRoutePerHost
<1>1. RoutesInv => OneRoutePerHost
  BY DEF RoutesInv
<1> QED
  BY <1>1, RoutesInvariant, PTL

\* No two routes of the store share an ID, so removing a deployment's route takes no
\* other one away (removeRoute).
THEOREM UniqueRouteIDs == Spec => []RouteIDsUnique
<1>1. RoutesInv => RouteIDsUnique
  BY DEF RoutesInv
<1> QED
  BY <1>1, RoutesInvariant, PTL

\* Every route leads to the upstream its deployment last reported, and deployment and
\* route name each other (applySucceeded, upsertRoute).
THEOREM RoutesAreOwned == Spec => []RouteOwner
<1>1. RoutesInv => RouteOwner
  BY DEF RoutesInv
<1> QED
  BY <1>1, RoutesInvariant, PTL

\* A deployment whose status speaks of a route names one that its environment has had
\* (applySucceeded, ApplyDesiredStateReport).
THEOREM StatusNamesRoute == Spec => []RouteStatusNamesRoute
<1>1. RoutesInv => RouteStatusNamesRoute
  BY DEF RoutesInv
<1> QED
  BY <1>1, RoutesInvariant, PTL

\* The counter that is saved for an environment is its published version
\* (incrementDesiredState).
THEOREM VersionCounters == Spec => []VersionsAgree
<1>1. RoutesInv => VersionsAgree
  BY DEF RoutesInv
<1> QED
  BY <1>1, RoutesInvariant, PTL

\* Between resets a version stands for one set of routes: gateways that have a version
\* have its routes (incrementDesiredState).
THEOREM VersionsNameRoutes == Spec => VersionNamesRoutes
<1>1. TypeOK /\ RoutesInv /\ [Next]_vars =>
        (~Cleared' => \A e \in Env :
           \/ desiredStates'[e] = desiredStates[e]
           \/ desiredStates'[e].version = desiredStates[e].version + 1)
  <2> SUFFICES ASSUME TypeOK, RoutesInv, [Next]_vars, ~Cleared', NEW e \in Env
               PROVE  \/ desiredStates'[e] = desiredStates[e]
                      \/ desiredStates'[e].version = desiredStates[e].version + 1
    OBVIOUS
  <2>1. SomeRouteStep
    BY RouteSteps DEF RoutesInv
  <2>2. ~RoutesForgotten
    BY DEF RoutesForgotten, Cleared
  <2> QED
    BY <2>1, <2>2 DEF SomeRouteStep, NoRouteStep, Published, Withdrawn, StepOf
<1> QED
  BY <1>1, TypeCorrect, RoutesInvariant, PTL DEF Spec, VersionNamesRoutes

=============================================================================
