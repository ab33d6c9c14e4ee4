------------------------------ MODULE Platform ------------------------------
(***************************************************************************)
(* The store with everything that calls it: the testing endpoints, whose   *)
(* handlers look something up in one critical section and act in another,  *)
(* the runtime agents that list, claim, start and report commands, and the *)
(* gateways that fetch, apply and report desired states.                   *)
(*                                                                         *)
(* Agents and gateways are not in src/: they are modelled from the API     *)
(* they use.  An agent works on any number of commands at once, repeats a  *)
(* call whose answer it did not get, drops a command it is refused and may *)
(* crash.  A gateway reports what it fetched once; the report may arrive   *)
(* late or twice.  An agent the API does not know, at first or after a     *)
(* reset, registers; it is the only one of its environment and role and    *)
(* gets the same ID every time (AgentRegistry is about those that do not). *)
(***************************************************************************)
EXTENDS Store

CONSTANTS
  AgentEnv,       \* the environment each agent registered with
  Stranger,       \* agent IDs a tester may name though nobody polls under them
  Gateway,        \* gateway agents
  GatewayEnv,     \* the environment each gateway registered with
  DeployForm,     \* the <<host, requires_route>> pairs testers ask for
  MaxEpoch,       \* bound: times the store is cleared or set back
  MaxAsked,       \* bound: commands in the store and epochs behind it, together
  MaxAgentCrash,  \* bound: crashes of agents
  MaxDuplicate    \* bound: gateway reports sent a second time

ASSUME PlatformAssumption ==
  /\ AgentEnv \in [Agent -> Env] /\ Stranger \subseteq Agent
  /\ GatewayEnv \in [Gateway -> Env]
  /\ Agent \cap Gateway = {}
  /\ DeployForm \subseteq (Host \cup {NoHost}) \X BOOLEAN
  /\ MaxEpoch \in Nat /\ MaxAsked \in Nat
  /\ MaxAgentCrash \in Nat /\ MaxDuplicate \in Nat

VARIABLES
  registered, \* the agents the store knows (Store.Agents)
  forgotten,  \* those a reset removed while a handler may have found them before
  request,    \* the testing request between its lookup and its write
  work,       \* how far each agent is with each command ID
  fetched,    \* the desired state each gateway fetched last
  reported,   \* the gateway has sent its report of what it fetched
  outbox,     \* gateway reports under way
  sent,       \* history: every gateway report that was sent
  epoch,      \* history: how often the store has been cleared (in Recovery: or set back)
  orphaned,   \* history: commands whose agent crashed with them in hand
  mistaken,   \* history: routes ever made active by a report of before a reset (in Recovery:
              \* or restart) that does not name them
  crashes, duplicates  \* how often the bounded events have happened

localVars == <<registered, forgotten, request, work, fetched, reported, outbox, sent,
               epoch, orphaned, mistaken, crashes, duplicates>>
storeVars == vars
platformVars == <<storeVars, localVars>>

-----------------------------------------------------------------------------
NoRequest == [type |-> "none", deployment |-> NoID]
AboutRequest ==
  [type : {StopType, RemoveType}, deployment : 1..MaxDeployment, target : Agent]
CleanupRequest == [type : {CleanupType}, deployment : {NoID}, target : Agent]
DeployRequest ==
  [type : {DeployType}, deployment : {NoID}, target : Agent,
   env : Env, host : Host \cup {NoHost}, requiresRoute : BOOLEAN]

\* The deployment and the epoch are those of the moment the agent listed the command (the
\* epoch is carried over a restart that brings back what the work rests on: Recovery).
NoWork == [step |-> "none", deployment |-> NoID, epoch |-> 0]
Work == [step : {"none", "claim", "start", "report"}, deployment : 0..MaxDeployment,
         epoch : Nat]

GatewayReport == [gateway : Gateway, version : Nat, status : {"applied", "failed"},
                  routes : SUBSET Route, epoch : Nat]

FetchedState == [version : Nat, routes : SUBSET Route, epoch : Nat]
NothingFetched == [version |-> 0, routes |-> {}, epoch |-> 0]

PlatformInit ==
  /\ Init
  /\ registered = {} /\ forgotten = {}
  /\ request = NoRequest
  /\ work = [a \in Agent |-> [c \in 1..MaxCommand |-> NoWork]]
  /\ fetched = [g \in Gateway |-> NothingFetched]
  /\ reported = [g \in Gateway |-> TRUE]
  /\ outbox = {} /\ sent = {}
  /\ epoch = 0 /\ orphaned = {} /\ mistaken = {} /\ crashes = 0 /\ duplicates = 0

-----------------------------------------------------------------------------
(***************************************************************************)
(* handlers_testing.go.  Between the lookup and the write any other        *)
(* request may be served, a reset too.                                     *)
(***************************************************************************)
\* A bound on testers: after a reset there is room for fewer commands than before.
MayAsk == counters.command + epoch < MaxAsked

Pend(r) ==
  /\ MayAsk
  /\ request = NoRequest
  /\ request' = r
  /\ UNCHANGED <<storeVars, registered, forgotten, work, fetched, reported, outbox, sent,
                 epoch, orphaned, mistaken, crashes, duplicates>>

\* FindAgentByEnvironmentRole: the request names the role, so any agent may be asked for.
AgentFound(e, a) == a \in registered /\ AgentEnv[a] = e

AskDeploy(e, form, a) ==
  /\ AgentFound(e, a)
  /\ Pend([type |-> DeployType, deployment |-> NoID, target |-> a,
           env |-> e, host |-> form[1], requiresRoute |-> form[2]])

\* handleTestingStop and handleTestingRemove: the target may be given in the request and
\* is taken as it is, whether or not it is an agent's.
AskAbout(t, d, a) ==
  /\ d \in DOMAIN deployments
  /\ Pend([type |-> t, deployment |-> d, target |-> a])

AskCleanup(e, a) ==
  /\ AgentFound(e, a)
  /\ Pend([type |-> CleanupType, deployment |-> NoID, target |-> a])

Serve ==
  /\ request # NoRequest
  /\ \/ /\ request.type = DeployType
        /\ InitDeploy(request.env, request.host, request.requiresRoute, request.target)
     \/ /\ request.type # DeployType
        /\ CreateCommand(request.type, request.deployment, request.target)
  /\ request' = NoRequest
  /\ UNCHANGED <<registered, forgotten, work, fetched, reported, outbox, sent,
                 epoch, orphaned, mistaken, crashes, duplicates>>

ServeReset ==
  /\ epoch < MaxEpoch /\ MayAsk
  /\ Reset
  /\ registered' = {}
  /\ forgotten' = forgotten \cup registered
  /\ epoch' = epoch + 1
  /\ orphaned' = {}
  /\ UNCHANGED <<request, work, fetched, reported, outbox, sent, mistaken, crashes, duplicates>>

-----------------------------------------------------------------------------
(***************************************************************************)
(* Runtime agents and the handlers of handlers_commands.go.                *)
(***************************************************************************)
OnlyWork == UNCHANGED <<registered, forgotten, request, fetched, reported, outbox, sent,
                        epoch, orphaned, mistaken, crashes, duplicates>>

Advance(a, c, s) == work' = [work EXCEPT ![a][c].step = s]
Drop(a, c)       == work' = [work EXCEPT ![a][c] = NoWork]
AnswerLost       == UNCHANGED work

\* The agent starts, or its list call is answered 404: it registers and polls on.
Join(a) ==
  /\ a \notin registered \cup Stranger
  /\ registered' = registered \cup {a}
  /\ UNCHANGED <<storeVars, forgotten, request, work, fetched, reported, outbox, sent,
                 epoch, orphaned, mistaken, crashes, duplicates>>

\* Handlers look the agent up in a critical section of its own: a reset may come between
\* that and what they do for it.
LookedUp(p) == p \in registered \cup forgotten

List(a, c) ==
  /\ LookedUp(a)
  /\ work[a][c] = NoWork
  /\ c \in DOMAIN commands
  /\ commands[c].target = a /\ commands[c].status = "pending"
  /\ work' = [work EXCEPT ![a][c] = [step |-> "claim", epoch |-> epoch,
                                      deployment |-> commands[c].deployment]]
  /\ UNCHANGED storeVars /\ OnlyWork

CallClaim(a, c) ==
  /\ work[a][c].step = "claim"
  /\ \/ c \in DOMAIN commands /\ ClaimCommand(c, a) /\ (Advance(a, c, "start") \/ AnswerLost)
     \/ ClaimedAlready(c, a) /\ UNCHANGED storeVars /\ Advance(a, c, "start")
     \/ /\ c \in DOMAIN commands => ~Claimable(c, a)
        /\ ~ClaimedAlready(c, a)
        /\ UNCHANGED storeVars /\ Drop(a, c)
  /\ OnlyWork

CallStart(a, c) ==
  /\ work[a][c].step = "start"
  /\ \/ c \in DOMAIN commands /\ StartCommand(c, a) /\ (Advance(a, c, "report") \/ AnswerLost)
     \/ StartedAlready(c, a) /\ UNCHANGED storeVars /\ Advance(a, c, "report")
     \/ /\ c \in DOMAIN commands => ~Startable(c, a)
        /\ ~StartedAlready(c, a)
        /\ UNCHANGED storeVars /\ Drop(a, c)
  /\ OnlyWork

\* The container work happens between the start and this call.
CallReport(a, c, st, u) ==
  /\ work[a][c].step = "report"
  /\ \/ /\ c \in DOMAIN commands
        /\ ReportCommand(c, work[a][c].deployment, st, u)
        /\ Drop(a, c) \/ AnswerLost
     \/ /\ c \in DOMAIN commands => ~Reportable(c)
        /\ UNCHANGED storeVars /\ Drop(a, c)
  /\ OnlyWork

AgentCrash(a) ==
  /\ crashes < MaxAgentCrash
  /\ crashes' = crashes + 1
  /\ work' = [work EXCEPT ![a] = [c \in 1..MaxCommand |-> NoWork]]
  /\ orphaned' = orphaned \cup
       {c \in DOMAIN commands : commands[c].claimedBy = a /\ Reportable(c)}
  /\ UNCHANGED <<storeVars, registered, forgotten, request, fetched, reported, outbox, sent,
                 epoch, mistaken, duplicates>>

-----------------------------------------------------------------------------
(***************************************************************************)
(* Gateways and the handlers of handlers_desired_state.go.                 *)
(***************************************************************************)
Fetch(g) ==
  LET ds == desiredStates[GatewayEnv[g]]
  IN /\ LookedUp(g)
     /\ ds.version # fetched[g].version
     /\ fetched' = [fetched EXCEPT ![g] =
          [version |-> ds.version, routes |-> ds.routes, epoch |-> epoch]]
     /\ reported' = [reported EXCEPT ![g] = FALSE]
     /\ UNCHANGED <<storeVars, registered, forgotten, request, work, outbox, sent,
                    epoch, orphaned, mistaken, crashes, duplicates>>

\* The gateway starts, or its fetch is answered 404: it registers and starts over.
StartOver(g) ==
  /\ g \notin registered
  /\ registered' = registered \cup {g}
  /\ fetched' = [fetched EXCEPT ![g] = NothingFetched]
  /\ reported' = [reported EXCEPT ![g] = TRUE]
  /\ UNCHANGED <<storeVars, forgotten, request, work, outbox, sent,
                 epoch, orphaned, mistaken, crashes, duplicates>>

\* The gateway has applied what it fetched, or failed to, and says so.
SendReport(g, st) ==
  LET m == [gateway |-> g, version |-> fetched[g].version, status |-> st,
            routes |-> fetched[g].routes, epoch |-> fetched[g].epoch]
  IN /\ ~reported[g]
     /\ reported' = [reported EXCEPT ![g] = TRUE]
     /\ outbox' = outbox \cup {m}
     /\ sent' = sent \cup {m}
     /\ UNCHANGED <<storeVars, registered, forgotten, request, work, fetched,
                    epoch, orphaned, mistaken, crashes, duplicates>>

\* The routes m makes active though it is of an earlier epoch and does not name them.
PassesFor(m) ==
  LET e == GatewayEnv[m.gateway]
  IN {r \in desiredStates[e].routes \ m.routes :
        /\ m.epoch < epoch /\ m.status = "applied"
        /\ Settles(r.deployment, e, m.version, m.status)}

\* handleDesiredStateReport serves a report; the gateway may send it once more.
Deliver(m) ==
  /\ m \in outbox
  /\ ApplyDesiredStateReport(GatewayEnv[m.gateway], m.version, m.status)
  /\ \/ outbox' = outbox \ {m} /\ UNCHANGED duplicates
     \/ duplicates < MaxDuplicate /\ duplicates' = duplicates + 1 /\ UNCHANGED outbox
  /\ mistaken' = mistaken \cup PassesFor(m)
  /\ UNCHANGED <<registered, forgotten, request, work, fetched, reported, sent,
                 epoch, orphaned, crashes>>

-----------------------------------------------------------------------------
Testers ==
  \/ \E e \in Env, form \in DeployForm, a \in Agent : AskDeploy(e, form, a)
  \/ \E t \in {StopType, RemoveType}, d \in 1..MaxDeployment, a \in Agent : AskAbout(t, d, a)
  \/ \E e \in Env, a \in Agent : AskCleanup(e, a)
  \/ Serve
  \/ ServeReset

Agents ==
  \/ \E a \in Agent : Join(a)
  \/ \E a \in Agent, c \in 1..MaxCommand :
       \/ List(a, c) \/ CallClaim(a, c) \/ CallStart(a, c)
       \/ \E st \in FinalStatus, u \in Upstream : CallReport(a, c, st, u)

Gateways ==
  \/ \E g \in Gateway : Fetch(g) \/ StartOver(g)
  \/ \E g \in Gateway, st \in {"applied", "failed"} : SendReport(g, st)
  \/ \E m \in outbox : Deliver(m)

PlatformNext == Testers \/ Agents \/ (\E a \in Agent : AgentCrash(a)) \/ Gateways

PlatformSafety == PlatformInit /\ [][PlatformNext]_platformVars

\* Agents poll, retry and finish what they began; gateways poll and report.  Nothing is
\* asked of testers.  An answer that is lost is not lost for ever.
PlatformFairness ==
  /\ \A a \in Agent : WF_platformVars(Join(a))
  /\ \A a \in Agent, c \in 1..MaxCommand :
       /\ WF_platformVars(List(a, c) /\ a \in registered)
       /\ WF_platformVars(CallClaim(a, c) /\ ~AnswerLost)
       /\ WF_platformVars(CallStart(a, c) /\ ~AnswerLost)
       /\ WF_platformVars((\E st \in FinalStatus, u \in Upstream : CallReport(a, c, st, u))
                            /\ ~AnswerLost)
  /\ \A g \in Gateway :
       /\ WF_platformVars(Fetch(g) /\ g \in registered) /\ WF_platformVars(StartOver(g))
       /\ WF_platformVars(\E st \in {"applied", "failed"} : SendReport(g, st))
  /\ WF_platformVars(\E m \in outbox : Deliver(m))

PlatformSpec == PlatformSafety /\ PlatformFairness

-----------------------------------------------------------------------------
(***************************************************************************)
(* Properties                                                              *)
(***************************************************************************)
\* The store's type invariant holds under its real callers, and what the callers keep
\* between two calls is well formed: a request looked up is one the store can serve.
PlatformTypeOK ==
  /\ TypeOK
  /\ registered \cup forgotten \subseteq Agent \cup Gateway
  /\ request \in {NoRequest} \cup AboutRequest \cup CleanupRequest \cup DeployRequest
  /\ work \in [Agent -> [1..MaxCommand -> Work]]
  /\ fetched \in [Gateway -> FetchedState]
  /\ reported \in [Gateway -> BOOLEAN]
  /\ outbox \subseteq sent /\ sent \subseteq GatewayReport
  /\ mistaken \subseteq Route
  /\ epoch \in 0..MaxEpoch /\ crashes \in 0..MaxAgentCrash /\ duplicates \in 0..MaxDuplicate

\* An agent does a command's work only while the store has the command as running for
\* it, or already final, whatever answers were lost, unless a reset came in between or a
\* restart from a snapshot that had not seen the command start.
WorksOnStarted ==
  \A a \in Agent, c \in 1..MaxCommand :
    work[a][c].step = "report" /\ work[a][c].epoch = epoch =>
      /\ c \in DOMAIN commands
      /\ commands[c].claimedBy = a
      /\ commands[c].status \in {"running"} \cup FinalStatus
      /\ commands[c].deployment = work[a][c].deployment

\* A gateway of e has sent word that it applied a state with r, of a version no newer than
\* the current one.
Served(e, r) ==
  \E m \in sent : /\ m.status = "applied" /\ GatewayEnv[m.gateway] = e
                  /\ m.version <= desiredStates[e].version
                  /\ r \in m.routes

\* A route that counts as active is served: a gateway of the environment has fetched
\* exactly this route and applied it, however late or often reports come in.  The one
\* exception is a route that a report of before a reset or restart has made active without
\* naming it, the versions being used again (ApplyDesiredStateReport).
ActiveIsServed ==
  \A e \in Env : \A r \in desiredStates[e].routes :
    r.deployment \in DOMAIN deployments /\ deployments[r.deployment].status = "route_active" =>
      Served(e, r) \/ r \in mistaken

\* A command in flight is in the hands of its agent, at a step whose call the store will
\* accept, unless the agent crashed with it or a restart took its claim or start back: an
\* agent whose answers are lost, or that is refused, never gives up what the store counts on
\* it for (ClaimCommand, StartCommand, ReportCommand).
InFlightIsHeld ==
  \A c \in DOMAIN commands \ orphaned :
    LET step == work[commands[c].target][c].step
    IN /\ commands[c].status = "claimed" => step \in {"claim", "start", "report"}
       /\ commands[c].status = "running" => step \in {"start", "report"}

\* g has yet to register, to fetch version v or to report it, or its report is on the way.
IsToReport(g, v) ==
  \/ g \notin registered
  \/ fetched[g].version # v
  \/ ~reported[g]
  \/ \E m \in outbox : m.gateway = g /\ m.version = v

\* While a route is pending each gateway of its environment has yet to be heard of the
\* current version, whatever other deployments, reports and resets came in between.
PendingIsUnderWay ==
  \A d \in DOMAIN deployments, g \in Gateway :
    deployments[d].status = "route_pending" /\ deployments[d].env = GatewayEnv[g] =>
      IsToReport(g, desiredStates[GatewayEnv[g]].version)

\* Every command is reported in the end, whatever answers are lost, unless its agent
\* crashed with it in hand, a reset took it away or a tester made it for an agent there is
\* not.
CommandsFinish ==
  \A c \in 1..MaxCommand :
    c \in DOMAIN commands ~>
      \/ c \notin DOMAIN commands
      \/ commands[c].status \in FinalStatus
      \/ c \in orphaned
      \/ commands[c].target \in Stranger

\* A pending route is decided in the end although reports of versions that have been
\* superseded on the way are discarded.
PendingSettles ==
  \A d \in 1..MaxDeployment :
    d \in DOMAIN deployments /\ deployments[d].status = "route_pending" ~>
      d \notin DOMAIN deployments \/ deployments[d].status # "route_pending"

\* Lifecycle of docs/specs/06, "Deployment transitions": nothing leads out of "removed".
RemovedIsFinal ==
  [][ \A d \in DOMAIN deployments :
        deployments[d].status = "removed" /\ d \in DOMAIN deployments' =>
          deployments'[d].status = "removed" ]_platformVars

\* docs/specs/02, "Regras applied atual": a pending deployment becomes active for each
\* route of the current version, so it has one there.
BecomesActiveWithRoute ==
  [][ \A d \in DOMAIN deployments \cap DOMAIN deployments' :
        deployments[d].status = "route_pending" /\ deployments'[d].status = "route_active" =>
          \E r \in desiredStates[deployments[d].env].routes : r.deployment = d ]_platformVars

=============================================================================
