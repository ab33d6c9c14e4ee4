-------------------------------- MODULE Api --------------------------------
(***************************************************************************)
(* The HTTP side: router, middleware and the handlers that touch commands, *)
(* request by request, up to the answer.                                   *)
(*                                                                         *)
(* A handler calls the store once or twice, each time in a critical        *)
(* section of its own, and writes the answer after the last one.  Claim,   *)
(* start, the lists of commands and the debug dump write it from pointers  *)
(* into the store: they show what is there by then, one command after the  *)
(* other.  A reset replaces the maps, so a handler that holds the old ones *)
(* shows what was there when they were replaced.  All other answers        *)
(* consist of copies or of fields that are never assigned again.           *)
(*                                                                         *)
(* Reading a command while it is written is a data race.  It is modelled   *)
(* as reading the command before or after the write; that Go may end the   *)
(* process when it sees a map read and written at once is not.             *)
(***************************************************************************)
EXTENDS Store

CONSTANTS
  Client,       \* connections, with one request at a time each
  AgentEnv,     \* the environment each agent registers with
  DeployForm,   \* the <<host, requires_route>> pairs testers ask for
  AuthEnabled,  \* Config.AuthEnabled
  MaxEpoch      \* bound: resets

ASSUME ApiAssumption ==
  /\ AgentEnv \in [Agent -> Env]
  /\ DeployForm \subseteq (Host \cup {NoHost}) \X BOOLEAN
  /\ AuthEnabled \in BOOLEAN
  /\ MaxEpoch \in Nat

VARIABLES
  registered,  \* the agents the store knows (Store.Agents)
  conn,        \* the request each client has under way
  answer,      \* the answer written in the last step, if it wrote one
  epoch,       \* history: resets so far
  told         \* history: who was answered to have claimed which command, and when

apiVars == <<vars, registered, conn, answer, epoch, told>>
context == <<registered, epoch, told>>

-----------------------------------------------------------------------------
\* router.go: the agents' endpoints, behind authMiddleware; the others are the testers'.
AgentEndpoint == {"register", "pending", "claim", "start", "report"}
CommandOf == [stop |-> StopType, remove |-> RemoveType, cleanup |-> CleanupType]
BodyEndpoint == {"register", "report", "deploy"} \cup DOMAIN CommandOf

\* pc: "found" between lookup and write; "dump" with the live map in hand; "encode" while the
\* commands in held are read one by one; "detached" when a reset has taken them away.
Request(endpoint, a, c, d) ==
  [pc |-> "new", endpoint |-> endpoint, agent |-> a, command |-> c, deployment |-> d,
   since |-> epoch, held |-> {}, shown |-> EmptyMap, reports |-> << >>]

Idle == [pc |-> "idle"]
NoAnswer == [code |-> 0]

ApiInit ==
  /\ Init
  /\ registered = {}
  /\ conn = [k \in Client |-> Idle]
  /\ answer = NoAnswer
  /\ epoch = 0
  /\ told = {}

Ready(k) == conn[k] = Idle

Proceed(k, pc, r) ==
  /\ conn' = [conn EXCEPT ![k] = [r EXCEPT !.pc = pc]]
  /\ answer' = NoAnswer

\* Errors and the answers that need nothing but the request.
Answer(k, r, code) ==
  /\ conn' = [conn EXCEPT ![k] = Idle]
  /\ answer' = [code |-> code, request |-> [r EXCEPT !.pc = "done"]]

AnswerFrom(k, r, ids) == Proceed(k, "encode", [r EXCEPT !.held = ids])

\* No token where one is asked for, or a body that does not decode or lacks a field.
Refuse(k, endpoint) ==
  /\ Ready(k)
  /\ \/ AuthEnabled /\ endpoint \in AgentEndpoint
        /\ Answer(k, Request(endpoint, NoAgent, NoID, NoID), 401)
     \/ endpoint \in BodyEndpoint
        /\ Answer(k, Request(endpoint, NoAgent, NoID, NoID), 400)
  /\ UNCHANGED <<vars, context>>

-----------------------------------------------------------------------------
(***************************************************************************)
(* handlers_agents.go and handlers_commands.go.                            *)
(***************************************************************************)
Register(k, a) ==
  /\ Ready(k)
  /\ registered' = registered \cup {a}
  /\ Answer(k, Request("register", a, NoID, NoID), 200)
  /\ UNCHANGED <<vars, epoch, told>>

\* The call is refused and changes nothing: the command is unknown or in another state.
Fails(k, r, accepted) ==
  /\ UNCHANGED vars
  /\ \/ r.command \notin DOMAIN commands /\ Answer(k, r, 404)
     \/ r.command \in DOMAIN commands /\ ~accepted /\ Answer(k, r, 409)

Claim(k, a, c) ==
  LET r == Request("claim", a, c, NoID)
  IN /\ Ready(k)
     /\ \/ c \in DOMAIN commands /\ ClaimCommand(c, a) /\ AnswerFrom(k, r, {c})
        \/ ClaimedAlready(c, a) /\ UNCHANGED vars /\ AnswerFrom(k, r, {c})
        \/ Fails(k, r, Claimable(c, a) \/ ClaimedAlready(c, a))
     /\ UNCHANGED context

Start(k, a, c) ==
  LET r == Request("start", a, c, NoID)
  IN /\ Ready(k)
     /\ \/ c \in DOMAIN commands /\ StartCommand(c, a) /\ AnswerFrom(k, r, {c})
        \/ StartedAlready(c, a) /\ UNCHANGED vars /\ AnswerFrom(k, r, {c})
        \/ Fails(k, r, Startable(c, a) \/ StartedAlready(c, a))
     /\ UNCHANGED context

\* A status other than the two is a conflict like any other.
Report(k, a, c, dIn, st, u) ==
  LET r == Request("report", a, c, dIn)
  IN /\ Ready(k)
     /\ \/ c \in DOMAIN commands /\ ReportCommand(c, dIn, st, u) /\ Answer(k, r, 200)
        \/ Fails(k, r, Reportable(c) /\ st \in FinalStatus)
     /\ UNCHANGED context

-----------------------------------------------------------------------------
(***************************************************************************)
(* Handlers that look something up first, in a critical section of its own *)
(***************************************************************************)
LookupAgent(k, a) ==
  LET r == Request("pending", a, NoID, NoID)
  IN /\ Ready(k)
     /\ \/ a \in registered /\ Proceed(k, "found", r)
        \/ a \notin registered /\ Answer(k, r, 404)
     /\ UNCHANGED <<vars, context>>

ListPending(k) ==
  /\ conn[k].pc = "found" /\ conn[k].endpoint = "pending"
  /\ AnswerFrom(k, conn[k],
       {c \in DOMAIN commands :
          commands[c].target = conn[k].agent /\ commands[c].status = "pending"})
  /\ UNCHANGED <<vars, context>>

\* Deploy and cleanup: any agent of the environment; the role is the request's.
LookupTarget(k, endpoint, e) ==
  LET r    == Request(endpoint, NoAgent, NoID, NoID)
      here == {a \in registered : AgentEnv[a] = e}
  IN /\ Ready(k)
     /\ \/ \E a \in here : Proceed(k, "found", [r EXCEPT !.agent = a])
        \/ here = {} /\ Answer(k, r, 404)
     /\ UNCHANGED <<vars, context>>

\* Stop and remove: the agent of the deployment unless the request names one.
LookupDeployment(k, endpoint, d, a) ==
  LET r == Request(endpoint, a, NoID, d)
  IN /\ Ready(k)
     /\ \/ /\ d \in DOMAIN deployments /\ a = NoAgent
           /\ Proceed(k, "found", [r EXCEPT !.agent = deployments[d].target])
        \/ d \in DOMAIN deployments /\ a # NoAgent /\ Proceed(k, "found", r)
        \/ d \notin DOMAIN deployments /\ Answer(k, r, 404)
     /\ UNCHANGED <<vars, context>>

\* The environment is that of the lookup.
Deploy(k, form) ==
  /\ conn[k].pc = "found" /\ conn[k].endpoint = "deploy"
  /\ InitDeploy(AgentEnv[conn[k].agent], form[1], form[2], conn[k].agent)
  /\ Answer(k, [conn[k] EXCEPT !.command = NextCommand, !.deployment = NextDeployment], 200)
  /\ UNCHANGED context

Create(k) ==
  /\ conn[k].pc = "found" /\ conn[k].endpoint \in DOMAIN CommandOf
  /\ CreateCommand(CommandOf[conn[k].endpoint], conn[k].deployment, conn[k].agent)
  /\ Answer(k, [conn[k] EXCEPT !.command = NextCommand], 200)
  /\ UNCHANGED context

-----------------------------------------------------------------------------
(***************************************************************************)
(* The testers' views, the reset, and response.JSON.                       *)
(***************************************************************************)
\* ListCommands with a filter for the status; the other filters are on fields that stay.
ListCommands(k, status) ==
  /\ Ready(k)
  /\ AnswerFrom(k, Request("commands", NoAgent, NoID, NoID),
       {c \in DOMAIN commands : commands[c].status \in status})
  /\ UNCHANGED <<vars, context>>

\* Store.Debug hands out the map itself, and the reports as they are now.
Debug(k) ==
  /\ Ready(k)
  /\ Proceed(k, "dump",
       [Request("debug", NoAgent, NoID, NoID) EXCEPT !.reports = commandReports])
  /\ UNCHANGED <<vars, context>>

\* The encoder collects the entries of the map before it reads the commands.
Iterate(k) ==
  /\ conn[k].pc = "dump"
  /\ AnswerFrom(k, conn[k], DOMAIN commands)
  /\ UNCHANGED <<vars, context>>

Encode(k, c) ==
  /\ conn[k].pc = "encode" /\ c \in conn[k].held \ DOMAIN conn[k].shown
  /\ Proceed(k, "encode", [conn[k] EXCEPT !.shown = Put(conn[k].shown, c, commands[c])])
  /\ UNCHANGED <<vars, context>>

Complete(r) == r.pc = "detached" \/ (r.pc = "encode" /\ DOMAIN r.shown = r.held)

Send(k) ==
  /\ Complete(conn[k])
  /\ Answer(k, conn[k], 200)
  /\ told' = IF conn[k].endpoint # "claim" THEN told
             ELSE told \cup {[command |-> conn[k].command, agent |-> conn[k].agent,
                              epoch |-> conn[k].since]}
  /\ UNCHANGED <<vars, registered, epoch>>

\* What the answer shows when the rest is read now.
ReadAll(r, ids) ==
  [c \in ids |-> IF c \in DOMAIN r.shown THEN r.shown[c] ELSE commands[c]]

MutFrozen(r) ==
  IF r.pc \notin {"dump", "encode"} THEN r
  ELSE [r EXCEPT !.pc = "detached", !.shown = ReadAll(r, r.held)]

\* The commands a request holds leave the store with the reset: nobody changes them any more.
Frozen(r) ==
  LET held == IF r.pc = "dump" THEN DOMAIN commands ELSE r.held
  IN IF r.pc \notin {"dump", "encode"} THEN r
     ELSE [r EXCEPT !.pc = "detached", !.held = held, !.shown = ReadAll(r, held)]

ServeReset(k) ==
  LET r == Request("reset", NoAgent, NoID, NoID)
  IN /\ Ready(k) /\ epoch < MaxEpoch
     /\ Reset
     /\ registered' = {}
     /\ epoch' = epoch + 1
     /\ conn' = [j \in Client |-> Frozen(conn[j])]
     /\ answer' = [code |-> 200, request |-> [r EXCEPT !.pc = "done"]]
     /\ UNCHANGED told

-----------------------------------------------------------------------------
Handle(k) ==
  \/ \E endpoint \in AgentEndpoint \cup BodyEndpoint : Refuse(k, endpoint)
  \/ \E a \in Agent : Register(k, a) \/ LookupAgent(k, a)
  \/ \E a \in Agent, c \in 1..MaxCommand : Claim(k, a, c) \/ Start(k, a, c)
  \/ \E a \in Agent, c \in 1..MaxCommand, dIn \in 0..MaxDeployment,
        st \in FinalStatus \cup {"other"}, u \in Upstream : Report(k, a, c, dIn, st, u)
  \/ ListPending(k)
  \/ \E endpoint \in {"deploy", "cleanup"}, e \in Env : LookupTarget(k, endpoint, e)
  \/ \E endpoint \in {"stop", "remove"}, d \in 1..MaxDeployment, a \in Agent \cup {NoAgent} :
       LookupDeployment(k, endpoint, d, a)
  \/ \E form \in DeployForm : Deploy(k, form)
  \/ Create(k)
  \/ \E status \in {CommandStatus} \cup {{s} : s \in CommandStatus} : ListCommands(k, status)
  \/ Debug(k) \/ Iterate(k) \/ Send(k)
  \/ \E c \in 1..MaxCommand : Encode(k, c)
  \/ ServeReset(k)

ApiNext == \E k \in Client : Handle(k)

ApiSpec == ApiInit /\ [][ApiNext]_apiVars

-----------------------------------------------------------------------------
(***************************************************************************)
(* Properties                                                              *)
(***************************************************************************)
\* Two claims of one command that are both answered 200 come from one agent, although each
\* answer is written some time after its claim; only a reset makes the ID a new command.
OneHolder ==
  \A s, t \in told : s.command = t.command /\ s.epoch = t.epoch => s.agent = t.agent

ShownAs(r, statuses) ==
  /\ DOMAIN r.shown = {r.command}
  /\ r.shown[r.command].status \in statuses
  /\ r.shown[r.command].claimedBy = r.agent

\* A 200 says what its caller relies on, whatever has happened to the command since the
\* handler let go of the lock: a claimer or starter is shown itself as the holder of a command
\* that has come at least that far, and a list of pending commands is of that agent's.
AnswersTrue ==
  answer.code = 200 =>
    LET r == answer.request
    IN /\ r.endpoint = "claim" => ShownAs(r, {"claimed", "running"} \cup FinalStatus)
       /\ r.endpoint = "start" => ShownAs(r, {"running"} \cup FinalStatus)
       /\ r.endpoint = "pending" => \A c \in DOMAIN r.shown : r.shown[c].target = r.agent

\* A debug dump shows every command it has a report of, with that report's status, also when
\* a reset comes between the two (Debug, Reset).
DumpKeepsReports ==
  answer.code = 200 =>
    LET r == answer.request
    IN \A i \in DOMAIN r.reports :
         /\ r.reports[i].command \in DOMAIN r.shown
         /\ r.shown[r.reports[i].command].status = r.reports[i].status

=============================================================================
