------------------------------- MODULE Fleet -------------------------------
(***************************************************************************)
(* The processes behind the agent IDs: the store and the agent table under *)
(* agents that share an identity, start anew and learn late, or never, of  *)
(* a reset.                                                                *)
(*                                                                         *)
(* Store knows an agent by its ID; which process calls with an ID is up to *)
(* AgentRegistry.  An agent registers when it has no ID, which is when it  *)
(* starts or was answered 404.  A reset issues the IDs anew: an agent that *)
(* sends nothing meanwhile keeps one that is by then another's.  No state  *)
(* file is configured; the end of the API process is then like a reset.    *)
(***************************************************************************)
EXTENDS Store

CONSTANTS
  Process, IndexKey, NumberKey,  \* those of AgentRegistry
  MaxAgent,                      \* bound: agents numbered per role between two resets
  MaxReset,                      \* bound: resets
  MaxRestart                     \* bound: agent processes that start anew

VARIABLES
  agents, agentIndex, numbers,   \* the agent table
  told, toldIn,                  \* the ID each process goes by, and the epoch it was told it in
  resets,
  work,                          \* how far each process is with each command ID
  restarts

\* No snapshot is ever taken: saved stays the empty table.
Registry == INSTANCE AgentRegistry WITH
  crashes <- 0, MaxCrash <- 0,
  saved <- [agents     |-> EmptyMap,
            agentIndex |-> [k \in {IndexKey[p] : p \in Process} |-> NoAgent],
            numbers    |-> [r \in {NumberKey[p] : p \in Process} |-> 0]]

ASSUME FleetAssumption ==
  /\ IndexKey \in [Process -> Registry!Key]
  /\ NumberKey \in [Process -> Registry!Role]
  /\ NoAgent \notin Registry!Role \X Nat
  /\ Agent = Registry!AgentID
  /\ MaxAgent \in Nat /\ MaxReset \in Nat /\ MaxRestart \in Nat

registryVars == <<agents, agentIndex, numbers, told, toldIn, resets>>
fleetVars == <<vars, registryVars, work, restarts>>

epoch == resets

\* as: the ID under which the last call for the command was accepted, and when it was told.
NoWork == [step |-> "none", deployment |-> NoID, as |-> NoAgent, since |-> 0, epoch |-> 0]

FleetInit ==
  /\ Init
  /\ Registry!Init
  /\ work = [p \in Process |-> [c \in 1..MaxCommand |-> NoWork]]
  /\ restarts = 0

-----------------------------------------------------------------------------
(***************************************************************************)
(* Registration, and what a process does about its ID.                     *)
(***************************************************************************)
Register(p) ==
  /\ told[p] = NoAgent
  /\ Registry!RegisterAgent(p)
  /\ UNCHANGED <<vars, work, restarts>>

Heartbeat(p) ==
  /\ Registry!Heartbeat(p, "online")
  /\ UNCHANGED <<vars, work, restarts>>

StartAnew(p) ==
  /\ restarts < MaxRestart
  /\ restarts' = restarts + 1
  /\ Registry!ProcessRestart(p)
  /\ work' = [work EXCEPT ![p] = [c \in 1..MaxCommand |-> NoWork]]
  /\ UNCHANGED vars

-----------------------------------------------------------------------------
(***************************************************************************)
(* Commands: as in Platform, but for the process that calls.  Only the ID  *)
(* goes into a call.                                                       *)
(***************************************************************************)
OnlyWork == UNCHANGED <<registryVars, restarts>>

Drop(p, c) == work' = [work EXCEPT ![p][c] = NoWork]
AnswerLost == UNCHANGED work
Advance(p, c, s) ==
  work' = [work EXCEPT ![p][c] = [step |-> s, deployment |-> @.deployment, as |-> told[p],
                                  since |-> toldIn[p], epoch |-> epoch]]

\* handleListPendingCommands looks the agent up first: a reset may come in between.
LookedUp(p) == told[p] \in DOMAIN agents \/ (told[p] # NoAgent /\ toldIn[p] < epoch)

List(p, c) ==
  /\ LookedUp(p)
  /\ work[p][c] = NoWork
  /\ c \in DOMAIN commands
  /\ commands[c].target = told[p] /\ commands[c].status = "pending"
  /\ work' = [work EXCEPT ![p][c] = [step |-> "claim", deployment |-> commands[c].deployment,
                                     as |-> NoAgent, since |-> 0, epoch |-> 0]]
  /\ UNCHANGED vars /\ OnlyWork

CallClaim(p, c) ==
  /\ told[p] # NoAgent /\ work[p][c].step = "claim"
  /\ \/ /\ c \in DOMAIN commands /\ ClaimCommand(c, told[p])
        /\ Advance(p, c, "start") \/ AnswerLost
     \/ ClaimedAlready(c, told[p]) /\ UNCHANGED vars /\ Advance(p, c, "start")
     \/ /\ c \in DOMAIN commands => ~Claimable(c, told[p])
        /\ ~ClaimedAlready(c, told[p])
        /\ UNCHANGED vars /\ Drop(p, c)
  /\ OnlyWork

CallStart(p, c) ==
  /\ told[p] # NoAgent /\ work[p][c].step = "start"
  /\ \/ /\ c \in DOMAIN commands /\ StartCommand(c, told[p])
        /\ Advance(p, c, "report") \/ AnswerLost
     \/ StartedAlready(c, told[p]) /\ UNCHANGED vars /\ Advance(p, c, "report")
     \/ /\ c \in DOMAIN commands => ~Startable(c, told[p])
        /\ ~StartedAlready(c, told[p])
        /\ UNCHANGED vars /\ Drop(p, c)
  /\ OnlyWork

CallReport(p, c, st, u) ==
  /\ told[p] # NoAgent /\ work[p][c].step = "report"
  /\ \/ /\ c \in DOMAIN commands
        /\ ReportCommand(c, work[p][c].deployment, st, u)
        /\ Drop(p, c) \/ AnswerLost
     \/ /\ c \in DOMAIN commands => ~Reportable(c)
        /\ UNCHANGED vars /\ Drop(p, c)
  /\ OnlyWork

-----------------------------------------------------------------------------
\* The testing endpoints.  Deploy and cleanup look an agent up; stop and remove may be told
\* any.  Lookup and write are one step here: Platform takes them apart.
Ask(id) ==
  /\ \/ id \in DOMAIN agents /\ \E e \in Env : InitDeploy(e, NoHost, FALSE, id)
     \/ id \in DOMAIN agents /\ CreateCommand(CleanupType, NoID, id)
     \/ \E t \in {StopType, RemoveType}, d \in DOMAIN deployments : CreateCommand(t, d, id)
  /\ UNCHANGED <<registryVars, work, restarts>>

ResetAll ==
  /\ Reset
  /\ Registry!Reset
  /\ UNCHANGED <<work, restarts>>

FleetNext ==
  \/ \E p \in Process : Register(p) \/ Heartbeat(p) \/ StartAnew(p)
  \/ \E p \in Process, c \in 1..MaxCommand :
       \/ List(p, c) \/ CallClaim(p, c) \/ CallStart(p, c)
       \/ \E st \in FinalStatus, u \in Upstream : CallReport(p, c, st, u)
  \/ \E id \in Agent : Ask(id)
  \/ ResetAll

\* A process registers until it is told an ID, and polls and calls until it is answered.
FleetFairness ==
  \A p \in Process :
    /\ WF_fleetVars(Register(p) /\ told'[p] # NoAgent)
    /\ WF_fleetVars(Heartbeat(p))
    /\ \A c \in 1..MaxCommand :
         /\ WF_fleetVars(List(p, c) /\ told[p] \in DOMAIN agents)
         /\ WF_fleetVars(CallClaim(p, c) /\ ~AnswerLost)
         /\ WF_fleetVars(CallStart(p, c) /\ ~AnswerLost)
         /\ WF_fleetVars((\E st \in FinalStatus, u \in Upstream : CallReport(p, c, st, u))
                           /\ ~AnswerLost)

FleetSpec == FleetInit /\ [][FleetNext]_fleetVars /\ FleetFairness

-----------------------------------------------------------------------------
(***************************************************************************)
(* Properties                                                              *)
(***************************************************************************)
\* p has been answered, since the last reset, that it holds c.
Holds(p, c) == work[p][c].step \in {"start", "report"} /\ work[p][c].epoch = epoch

\* Two processes hold one command only under one agent ID, and that only when they are one
\* identity to the API or one of them goes by an ID of before a reset.
WorkedOnce ==
  \A p, q \in Process, c \in 1..MaxCommand :
    p # q /\ Holds(p, c) /\ Holds(q, c) =>
      /\ work[p][c].as = work[q][c].as
      /\ \/ IndexKey[p] = IndexKey[q]
         \/ work[p][c].since < epoch \/ work[q][c].since < epoch

\* What a process holds it holds as the agent the command is for, and that agent is in the
\* table under the identity of the process, unless its ID is of before a reset.
OwnWork ==
  \A p \in Process, c \in 1..MaxCommand :
    Holds(p, c) =>
      /\ c \in DOMAIN commands /\ commands[c].target = work[p][c].as
      /\ work[p][c].since = epoch =>
           /\ work[p][c].as \in DOMAIN agents
           /\ agents[work[p][c].as].key = IndexKey[p]

\* A command for an agent of the table is taken although the agent's process starts anew,
\* for it gets its ID back, unless a reset takes the command away.
TargetsTake ==
  \A c \in 1..MaxCommand :
    c \in DOMAIN commands /\ commands[c].target \in DOMAIN agents ~>
      c \notin DOMAIN commands \/ commands[c].status # "pending"

=============================================================================
