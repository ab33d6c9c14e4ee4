----------------------------- MODULE FleetProofs -----------------------------
(***************************************************************************)
(* The processes behind the agent IDs, for any number of them, however     *)
(* their identities coincide.                                              *)
(*                                                                         *)
(* The store and the agent table share nothing but the IDs, and a reset    *)
(* clears both: every step is one of Store's and one of AgentRegistry's,   *)
(* so what is proved of either holds here.  What ties them together is the *)
(* work of a process: since the last reset the command it holds is claimed *)
(* by the ID it called with, and an ID told since then is in the table     *)
(* under the key of the process it was told to.                            *)
(***************************************************************************)
EXTENDS Fleet, StoreProofs

\* The proofs about the agent table, for a table that is never saved.
Table == INSTANCE AgentRegistryProofs WITH
  crashes <- 0, MaxCrash <- 0,
  saved <- [agents     |-> EmptyMap,
            agentIndex |-> [k \in {IndexKey[p] : p \in Process} |-> NoAgent],
            numbers    |-> [r \in {NumberKey[p] : p \in Process} |-> 0]]

WorkStep == {"none", "claim", "start", "report"}
Work == [step : WorkStep, deployment : 0..MaxDeployment, as : Agent \cup {NoAgent},
         since : Nat, epoch : Nat]

\* A process that was last accepted in this epoch is the claimer the store names.
HoldsOK(c, w, p) ==
  /\ w.since <= w.epoch /\ w.epoch <= epoch
  /\ w.epoch = epoch =>
       /\ c \in DOMAIN commands
       /\ commands[c].status # "pending" /\ commands[c].claimedBy = w.as
       /\ w.since = epoch => w.as \in DOMAIN agents /\ agents[w.as].key = IndexKey[p]

WorkOK ==
  \A p \in Process, c \in 1..MaxCommand :
    work[p][c].step \in {"start", "report"} => HoldsOK(c, work[p][c], p)

FleetInv ==
  /\ TypeOK /\ ClaimedByTarget /\ DeploymentsBounded /\ DeploymentsInRange
  /\ Table!RegistryInv
  /\ work \in [Process -> [1..MaxCommand -> Work]]
  /\ WorkOK

-----------------------------------------------------------------------------
(***************************************************************************)
(* The agent table of Fleet is the one the proofs are about.               *)
(***************************************************************************)
LEMMA SameAssumption == Table!RegistryAssumption
<1>1. Table!Key = Registry!Key /\ Table!Role = Registry!Role
  BY DEF Table!Key, Registry!Key, Table!Role, Registry!Role
<1> QED
  BY <1>1, FleetAssumption DEF Table!RegistryAssumption

LEMMA SameInit == Registry!Init <=> Table!Init
BY Zenon DEF Registry!Init, Registry!EmptyTable, Registry!Key, Registry!Role,
             Table!Init, Table!EmptyTable, Table!Key, Table!Role

LEMMA SameRegister ==
  ASSUME NEW p \in Process PROVE Registry!RegisterAgent(p) <=> Table!RegisterAgent(p)
BY Zenon DEF Registry!RegisterAgent, Registry!ReRegister, Registry!RegisterNew, Registry!Unknown,
             Registry!NewAgentID, Registry!Answer, Registry!epoch,
             Table!RegisterAgent, Table!ReRegister, Table!RegisterNew, Table!Unknown,
             Table!NewAgentID, Table!Answer, Table!epoch

LEMMA SameHeartbeat ==
  ASSUME NEW p \in Process, NEW st PROVE Registry!Heartbeat(p, st) <=> Table!Heartbeat(p, st)
BY Zenon DEF Registry!Heartbeat, Table!Heartbeat

LEMMA SameRestart ==
  ASSUME NEW p \in Process PROVE Registry!ProcessRestart(p) <=> Table!ProcessRestart(p)
BY Zenon DEF Registry!ProcessRestart, Registry!table, Table!ProcessRestart, Table!table

LEMMA SameReset == Registry!Reset <=> Table!Reset
BY Zenon DEF Registry!Reset, Registry!SetTable, Registry!ResetTable, Registry!EmptyTable,
             Registry!Key, Registry!Role, Table!Reset, Table!SetTable, Table!ResetTable,
             Table!EmptyTable, Table!Key, Table!Role

LEMMA RegistryFacts ==
  ASSUME Table!RegistryInv
  PROVE  /\ Table!epoch = epoch /\ epoch \in Nat
         /\ told \in [Process -> Agent \cup {NoAgent}]
         /\ toldIn \in [Process -> 0..epoch]
         /\ \A p \in Process : told[p] # NoAgent /\ toldIn[p] = epoch =>
              told[p] \in DOMAIN agents /\ agents[told[p]].key = IndexKey[p]
<1>1. Table!AgentID = Agent
  <2>1. Table!Role = Registry!Role
    BY DEF Table!Role, Registry!Role
  <2> QED
    BY <2>1, FleetAssumption DEF Table!AgentID, Registry!AgentID
<1>2. /\ resets \in 0..MaxReset /\ Table!epoch = resets + 0
      /\ told \in [Process -> Table!AgentID \cup {NoAgent}]
      /\ toldIn \in [Process -> 0..Table!epoch]
  BY DEF Table!RegistryInv, Table!HistoryOK, Table!epoch
<1>3. Table!epoch = epoch /\ epoch \in Nat
  BY <1>2, FleetAssumption DEF epoch
<1> QED
  BY <1>1, <1>2, <1>3 DEF Table!RegistryInv, Table!ToldIsKnown

LEMMA RegistryUnchanged == UNCHANGED registryVars => UNCHANGED (Table!vars)
BY DEF registryVars, Table!vars

-----------------------------------------------------------------------------
(***************************************************************************)
(* What a step does to the work of a process.                              *)
(***************************************************************************)
LEMMA NoWorkType == NoWork \in Work /\ NoWork.step = "none"
BY BoundsAssumption DEF NoWork, Work, WorkStep, NoID

Writes(p, c, w) == work' = [work EXCEPT ![p][c] = w]

LEMMA WrittenWork ==
  ASSUME work \in [Process -> [1..MaxCommand -> Work]], NEW p \in Process,
         NEW c \in 1..MaxCommand, NEW w \in Work, Writes(p, c, w)
  PROVE  /\ work' \in [Process -> [1..MaxCommand -> Work]]
         /\ work'[p][c] = w
         /\ \A q \in Process, x \in 1..MaxCommand :
              q # p \/ x # c => work'[q][x] = work[q][x]
BY DEF Writes

LEMMA AdvanceWork ==
  ASSUME work \in [Process -> [1..MaxCommand -> Work]], Table!RegistryInv, NEW p \in Process,
         NEW c \in 1..MaxCommand, NEW s \in WorkStep, Advance(p, c, s)
  PROVE  /\ work' \in [Process -> [1..MaxCommand -> Work]]
         /\ work'[p][c].as = told[p] /\ work'[p][c].since = toldIn[p]
         /\ work'[p][c].epoch = epoch
         /\ \A q \in Process, x \in 1..MaxCommand :
              q # p \/ x # c => work'[q][x] = work[q][x]
<1> DEFINE w == [step |-> s, deployment |-> work[p][c].deployment, as |-> told[p],
                 since |-> toldIn[p], epoch |-> epoch]
<1>1. w \in Work
  <2>1. work[p][c] \in Work
    OBVIOUS
  <2>2. work[p][c].deployment \in 0..MaxDeployment
    BY <2>1 DEF Work
  <2>3. told[p] \in Agent \cup {NoAgent} /\ toldIn[p] \in Nat /\ epoch \in Nat
    BY RegistryFacts
  <2> QED
    BY <2>2, <2>3 DEF Work
<1>2. Writes(p, c, w)
  BY DEF Advance, Writes
<1> HIDE DEF w
<1>3. /\ work' \in [Process -> [1..MaxCommand -> Work]] /\ work'[p][c] = w
      /\ \A q \in Process, x \in 1..MaxCommand : q # p \/ x # c => work'[q][x] = work[q][x]
  BY <1>1, <1>2, WrittenWork
<1> QED
  BY <1>3 DEF w

\* p has just been answered that it holds c.
Accepts(p, c) ==
  /\ UNCHANGED <<agents, told, toldIn>>
  /\ told[p] # NoAgent
  /\ work'[p][c].as = told[p] /\ work'[p][c].since = toldIn[p] /\ work'[p][c].epoch = epoch
  /\ c \in DOMAIN commands'
  /\ commands'[c].status # "pending" /\ commands'[c].claimedBy = told[p]

\* A step between two resets.
Calm ==
  /\ StoreCall /\ epoch' = epoch
  /\ [Table!Next]_(Table!vars)
  /\ work' \in [Process -> [1..MaxCommand -> Work]]
  /\ \A p \in Process, c \in 1..MaxCommand :
       \/ work'[p][c] = work[p][c]
       \/ work'[p][c].step \notin {"start", "report"}
       \/ Accepts(p, c)

LEMMA RegistryKept ==
  ASSUME Table!RegistryInv, [Table!Next]_(Table!vars)
  PROVE  Table!RegistryInv'
BY SameAssumption, Table!RegistryStep

LEMMA StoreKept ==
  ASSUME TypeOK, ClaimedByTarget, DeploymentsBounded, DeploymentsInRange, [Next]_vars
  PROVE  TypeOK' /\ ClaimedByTarget' /\ DeploymentsBounded' /\ DeploymentsInRange'
BY TypeStep, ClaimedByTargetStep, DeploymentsBoundedStep, RangeStep

LEMMA CalmKeeps ==
  ASSUME FleetInv, Calm
  PROVE  FleetInv'
<1> USE DEF FleetInv
<1>1. TypeOK' /\ ClaimedByTarget' /\ DeploymentsBounded' /\ DeploymentsInRange'
  BY StoreKept DEF Calm, StoreCall, Next
<1>2. Table!RegistryInv'
  BY RegistryKept DEF Calm
<1>3. ASSUME NEW i \in DOMAIN agents
      PROVE  i \in DOMAIN agents' /\ agents'[i].key = agents[i].key
  <2>1. Table!epoch' = Table!epoch
    BY DEF Calm, Table!epoch, epoch
  <2> QED
    BY <2>1, SameAssumption, Table!AgentsStay DEF Calm
<1>4. ASSUME NEW p \in Process, NEW c \in 1..MaxCommand,
             work'[p][c].step \in {"start", "report"}
      PROVE  HoldsOK(c, work[p][c], p)' \/ Accepts(p, c)
  <2> SUFFICES ASSUME ~Accepts(p, c) PROVE HoldsOK(c, work[p][c], p)'
    OBVIOUS
  <2>1. work'[p][c] = work[p][c] /\ HoldsOK(c, work[p][c], p)
    BY <1>4 DEF Calm, WorkOK
  <2> DEFINE w == work[p][c]
  <2>2. c \in DOMAIN commands /\ commands[c].status # "pending" =>
          /\ c \in DOMAIN commands' /\ commands'[c].status # "pending"
          /\ commands'[c].claimedBy = commands[c].claimedBy
    BY CommandKept DEF Calm
  <2>3. epoch' = epoch
    BY DEF Calm
  <2> QED
    BY <1>3, <2>1, <2>2, <2>3 DEF HoldsOK
<1>5. ASSUME NEW p \in Process, NEW c \in 1..MaxCommand, Accepts(p, c)
      PROVE  HoldsOK(c, work[p][c], p)'
  <2>1. epoch' = epoch /\ epoch \in Nat /\ toldIn[p] \in 0..epoch
    BY RegistryFacts DEF Calm
  <2>2. toldIn[p] = epoch => told[p] \in DOMAIN agents /\ agents[told[p]].key = IndexKey[p]
    BY <1>5, RegistryFacts DEF Accepts
  <2> QED
    BY <1>5, <2>1, <2>2 DEF Accepts, HoldsOK
<1>6. WorkOK'
  BY <1>4, <1>5 DEF WorkOK
<1>7. work' \in [Process -> [1..MaxCommand -> Work]]
  BY DEF Calm
<1> QED
  BY <1>1, <1>2, <1>6, <1>7

-----------------------------------------------------------------------------
(***************************************************************************)
(* The actions: all but the reset are calm.                                *)
(***************************************************************************)
\* Steps of the agent table that leave the store and the work alone.
LEMMA TableOnlyCalm ==
  ASSUME FleetInv, [Table!Next]_(Table!vars), UNCHANGED <<vars, work>>, resets' = resets
  PROVE  Calm
BY DEF FleetInv, Calm, StoreCall, epoch

LEMMA ProcessCalm ==
  ASSUME FleetInv, NEW p \in Process, Register(p) \/ Heartbeat(p) \/ StartAnew(p)
  PROVE  Calm
<1>1. CASE Register(p)
  <2>1. Table!RegisterAgent(p) /\ resets' = resets
    BY <1>1, SameRegister DEF Register, Registry!RegisterAgent
  <2> QED
    BY <1>1, <2>1, TableOnlyCalm DEF Register, Table!Next
<1>2. CASE Heartbeat(p)
  <2>1. Table!Heartbeat(p, "online") /\ resets' = resets /\ "online" \in Table!AgentStatus
    BY <1>2, SameHeartbeat DEF Heartbeat, Registry!Heartbeat, Table!AgentStatus
  <2> QED
    BY <1>2, <2>1, TableOnlyCalm DEF Heartbeat, Table!Next
<1>3. CASE StartAnew(p)
  <2>1. Table!ProcessRestart(p) /\ resets' = resets
    BY <1>3, SameRestart DEF StartAnew, Registry!ProcessRestart
  <2>2. work' = [work EXCEPT ![p] = [c \in 1..MaxCommand |-> NoWork]]
    BY <1>3 DEF StartAnew
  <2>3. /\ work' \in [Process -> [1..MaxCommand -> Work]]
        /\ \A q \in Process, c \in 1..MaxCommand :
             work'[q][c] = work[q][c] \/ work'[q][c] = NoWork
    BY <2>2, NoWorkType DEF FleetInv
  <2>4. [Table!Next]_(Table!vars)
    BY <2>1 DEF Table!Next
  <2> QED
    BY <1>3, <2>1, <2>3, <2>4, NoWorkType DEF Calm, StartAnew, StoreCall, epoch
<1> QED
  BY <1>1, <1>2, <1>3

\* Steps that leave the agent table alone and change the work on one command.
LEMMA CommandCalm ==
  ASSUME FleetInv, NEW p \in Process, NEW c \in 1..MaxCommand, StoreCall, OnlyWork,
         \/ AnswerLost
         \/ Drop(p, c)
         \/ \E w \in Work : Writes(p, c, w) /\ w.step = "claim"
         \/ /\ \E s \in WorkStep : Advance(p, c, s)
            /\ told[p] # NoAgent /\ c \in DOMAIN commands'
            /\ commands'[c].status # "pending" /\ commands'[c].claimedBy = told[p]
  PROVE  Calm
<1>1. /\ [Table!Next]_(Table!vars) /\ epoch' = epoch /\ UNCHANGED <<agents, told, toldIn>>
  BY RegistryUnchanged DEF OnlyWork, registryVars, epoch
<1>2. work \in [Process -> [1..MaxCommand -> Work]]
  BY DEF FleetInv
<1>3. CASE AnswerLost
  BY <1>1, <1>2, <1>3 DEF AnswerLost, Calm
<1>4. ASSUME NEW w \in Work, Writes(p, c, w), w.step \notin {"start", "report"}
      PROVE  Calm
  BY <1>1, <1>2, <1>4, WrittenWork DEF Calm
<1>5. CASE Drop(p, c)
  BY <1>4, <1>5, NoWorkType DEF Drop, Writes
<1>6. ASSUME NEW s \in WorkStep, Advance(p, c, s), told[p] # NoAgent,
             c \in DOMAIN commands', commands'[c].status # "pending",
             commands'[c].claimedBy = told[p]
      PROVE  Calm
  <2>1. /\ work' \in [Process -> [1..MaxCommand -> Work]]
        /\ work'[p][c].as = told[p] /\ work'[p][c].since = toldIn[p]
        /\ work'[p][c].epoch = epoch
        /\ \A q \in Process, x \in 1..MaxCommand :
             q # p \/ x # c => work'[q][x] = work[q][x]
    BY <1>2, <1>6, AdvanceWork DEF FleetInv
  <2>2. Accepts(p, c)
    BY <1>1, <1>6, <2>1 DEF Accepts
  <2> QED
    BY <1>1, <2>1, <2>2 DEF Calm
<1> QED
  BY <1>3, <1>4, <1>5, <1>6

LEMMA ListCalm ==
  ASSUME FleetInv, NEW p \in Process, NEW c \in 1..MaxCommand, List(p, c)
  PROVE  Calm
<1> DEFINE w == [step |-> "claim", deployment |-> commands[c].deployment, as |-> NoAgent,
                 since |-> 0, epoch |-> 0]
<1>1. commands[c].deployment \in 0..MaxDeployment
  BY DEF List, FleetInv, DeploymentsInRange
<1>2. w \in Work /\ w.step = "claim"
  BY <1>1 DEF Work, WorkStep
<1>3. Writes(p, c, w)
  BY DEF List, Writes
<1> HIDE DEF w
<1> QED
  BY <1>2, <1>3, CommandCalm DEF List, StoreCall

LEMMA ClaimCalm ==
  ASSUME FleetInv, NEW p \in Process, NEW c \in 1..MaxCommand, CallClaim(p, c)
  PROVE  Calm
<1>1. told[p] # NoAgent /\ told[p] \in Agent /\ OnlyWork /\ "start" \in WorkStep
  BY RegistryFacts DEF FleetInv, CallClaim, WorkStep
<1>2. CASE /\ c \in DOMAIN commands /\ ClaimCommand(c, told[p])
           /\ Advance(p, c, "start") \/ AnswerLost
  <2>1. StoreCall
    BY <1>1, <1>2 DEF StoreCall, Call
  <2>2. /\ c \in DOMAIN commands'
        /\ commands'[c].status # "pending" /\ commands'[c].claimedBy = told[p]
    <3>1. commands[c] \in Command
      BY <1>2 DEF FleetInv, TypeOK
    <3> QED
      BY <1>2, <3>1 DEF ClaimCommand, Command
  <2> QED
    BY <1>1, <1>2, <2>1, <2>2, CommandCalm
<1>3. CASE ClaimedAlready(c, told[p]) /\ UNCHANGED vars /\ Advance(p, c, "start")
  <2>1. /\ c \in DOMAIN commands'
        /\ commands'[c].status # "pending" /\ commands'[c].claimedBy = told[p]
    BY <1>3 DEF ClaimedAlready, vars
  <2> QED
    BY <1>1, <1>3, <2>1, CommandCalm DEF StoreCall
<1>4. CASE UNCHANGED vars /\ Drop(p, c)
  BY <1>1, <1>4, CommandCalm DEF StoreCall
<1> QED
  BY <1>2, <1>3, <1>4 DEF CallClaim

LEMMA StartCalm ==
  ASSUME FleetInv, NEW p \in Process, NEW c \in 1..MaxCommand, CallStart(p, c)
  PROVE  Calm
<1>1. told[p] # NoAgent /\ told[p] \in Agent /\ OnlyWork /\ "report" \in WorkStep
  BY RegistryFacts DEF FleetInv, CallStart, WorkStep
<1>2. CASE /\ c \in DOMAIN commands /\ StartCommand(c, told[p])
           /\ Advance(p, c, "report") \/ AnswerLost
  <2>1. StoreCall
    BY <1>1, <1>2 DEF StoreCall, Call
  <2>2. /\ c \in DOMAIN commands'
        /\ commands'[c].status # "pending" /\ commands'[c].claimedBy = told[p]
    <3>1. commands[c] \in Command
      BY <1>2 DEF FleetInv, TypeOK
    <3> QED
      BY <1>2, <3>1 DEF StartCommand, Startable, Command
  <2> QED
    BY <1>1, <1>2, <2>1, <2>2, CommandCalm
<1>3. CASE StartedAlready(c, told[p]) /\ UNCHANGED vars /\ Advance(p, c, "report")
  <2>1. /\ c \in DOMAIN commands'
        /\ commands'[c].status # "pending" /\ commands'[c].claimedBy = told[p]
    BY <1>3 DEF StartedAlready, vars
  <2> QED
    BY <1>1, <1>3, <2>1, CommandCalm DEF StoreCall
<1>4. CASE UNCHANGED vars /\ Drop(p, c)
  BY <1>1, <1>4, CommandCalm DEF StoreCall
<1> QED
  BY <1>2, <1>3, <1>4 DEF CallStart

LEMMA ReportCalm ==
  ASSUME FleetInv, NEW p \in Process, NEW c \in 1..MaxCommand, NEW st \in FinalStatus,
         NEW u \in Upstream, CallReport(p, c, st, u)
  PROVE  Calm
<1>1. OnlyWork
  BY DEF CallReport
<1>2. CASE /\ c \in DOMAIN commands
           /\ ReportCommand(c, work[p][c].deployment, st, u)
           /\ Drop(p, c) \/ AnswerLost
  <2>1. work[p][c].deployment \in 0..MaxDeployment
    BY DEF FleetInv, Work
  <2>2. StoreCall
    BY <1>2, <2>1 DEF StoreCall, Call
  <2> QED
    BY <1>1, <1>2, <2>2, CommandCalm
<1>3. CASE UNCHANGED vars /\ Drop(p, c)
  BY <1>1, <1>3, CommandCalm DEF StoreCall
<1> QED
  BY <1>2, <1>3 DEF CallReport

\* Steps of the store that leave the agent table and the work alone.
LEMMA StoreOnlyCalm ==
  ASSUME FleetInv, StoreCall, UNCHANGED <<registryVars, work>>
  PROVE  Calm
BY RegistryUnchanged DEF FleetInv, Calm, registryVars, epoch

LEMMA AskCalm ==
  ASSUME FleetInv, NEW id \in Agent, Ask(id)
  PROVE  Calm
<1>1. \A e \in Env : InitDeploy(e, NoHost, FALSE, id) => Call
  BY DEF Call
<1>2. CreateCommand(CleanupType, NoID, id) => Call
  BY DEF Call
<1>3. \A t \in {StopType, RemoveType}, d \in DOMAIN deployments : CreateCommand(t, d, id) => Call
  BY DEF Call, FleetInv, DeploymentsBounded
<1>4. StoreCall
  BY <1>1, <1>2, <1>3 DEF Ask, StoreCall
<1> QED
  BY <1>4, StoreOnlyCalm DEF Ask

-----------------------------------------------------------------------------
(***************************************************************************)
(* The fleet.                                                              *)
(***************************************************************************)
\* Nothing a process holds is of the epoch that a reset begins.
LEMMA ResetAllKeeps ==
  ASSUME FleetInv, ResetAll
  PROVE  FleetInv'
<1> USE DEF FleetInv
<1>1. TypeOK' /\ ClaimedByTarget' /\ DeploymentsBounded' /\ DeploymentsInRange'
  BY StoreKept DEF ResetAll, Next
<1>2. Table!RegistryInv'
  BY SameReset, RegistryKept DEF ResetAll, Table!Next
<1>3. epoch' = epoch + 1 /\ epoch \in Nat /\ work' = work
  BY RegistryFacts DEF ResetAll, Registry!Reset, epoch
<1>4. ASSUME NEW p \in Process, NEW c \in 1..MaxCommand,
             work'[p][c].step \in {"start", "report"}
      PROVE  HoldsOK(c, work[p][c], p)'
  <2>1. HoldsOK(c, work[p][c], p)
    BY <1>3, <1>4 DEF WorkOK
  <2>2. work[p][c].epoch \in Nat /\ work[p][c].since \in Nat
    BY DEF Work
  <2> QED
    BY <1>3, <2>1, <2>2 DEF HoldsOK
<1>5. WorkOK'
  BY <1>4 DEF WorkOK
<1> QED
  BY <1>1, <1>2, <1>3, <1>5

LEMMA FleetSteps ==
  ASSUME FleetInv, [FleetNext]_fleetVars
  PROVE  Calm \/ ResetAll
<1>1. ASSUME NEW p \in Process, Register(p) \/ Heartbeat(p) \/ StartAnew(p) PROVE Calm
  BY <1>1, ProcessCalm
<1>2. ASSUME NEW p \in Process, NEW c \in 1..MaxCommand,
             \/ List(p, c) \/ CallClaim(p, c) \/ CallStart(p, c)
             \/ \E st \in FinalStatus, u \in Upstream : CallReport(p, c, st, u)
      PROVE  Calm
  BY <1>2, ListCalm, ClaimCalm, StartCalm, ReportCalm
<1>3. ASSUME NEW id \in Agent, Ask(id) PROVE Calm
  BY <1>3, AskCalm
<1>4. CASE UNCHANGED fleetVars
  BY <1>4, StoreOnlyCalm DEF fleetVars, StoreCall
<1> QED
  BY <1>1, <1>2, <1>3, <1>4 DEF FleetNext

LEMMA FleetInitially == FleetInit => FleetInv
<1> SUFFICES ASSUME FleetInit PROVE FleetInv
  OBVIOUS
<1>1. TypeOK
  BY InitTypeOK DEF FleetInit
<1>2. ClaimedByTarget /\ DeploymentsBounded /\ DeploymentsInRange
  BY DEF FleetInit, Init, EmptyMap, ClaimedByTarget, DeploymentsBounded, DeploymentsInRange
<1>3. Table!RegistryInv
  BY SameInit, SameAssumption, Table!InitRegistry DEF FleetInit
<1>4. /\ work \in [Process -> [1..MaxCommand -> Work]]
      /\ \A p \in Process, c \in 1..MaxCommand : work[p][c].step = "none"
  BY NoWorkType DEF FleetInit
<1> QED
  BY <1>1, <1>2, <1>3, <1>4 DEF FleetInv, WorkOK

LEMMA FleetStep ==
  ASSUME FleetInv, [FleetNext]_fleetVars
  PROVE  FleetInv'
BY FleetSteps, CalmKeeps, ResetAllKeeps

LEMMA FleetInvariant == FleetSpec => []FleetInv
<1>1. FleetInv /\ [FleetNext]_fleetVars => FleetInv'
  BY FleetStep
<1> QED
  BY <1>1, FleetInitially, PTL DEF FleetSpec

\* Processes use the store as it is meant to be used, whoever they take themselves for: what
\* is proved of Spec holds in Fleet.
THEOREM FleetImplementsStore == FleetSpec => Spec
<1>1. FleetInit => Init
  BY DEF FleetInit
<1>2. FleetInv /\ [FleetNext]_fleetVars => [Next]_vars
  BY FleetSteps DEF Calm, StoreCall, ResetAll, Next
<1> QED
  BY <1>1, <1>2, FleetInvariant, PTL DEF FleetSpec, Spec

\* They use the agent table as it is meant to be used, too.
THEOREM FleetImplementsRegistry == FleetSpec => Table!Spec
<1>1. FleetInit => Table!Init
  BY SameInit DEF FleetInit
<1>2. FleetInv /\ [FleetNext]_fleetVars => [Table!Next]_(Table!vars)
  BY FleetSteps, SameReset DEF Calm, ResetAll, Table!Next
<1> QED
  BY <1>1, <1>2, FleetInvariant, PTL DEF FleetSpec, Table!Spec

\* What a process holds it holds as the agent the command is for, and that agent is in the
\* table under the identity of the process, unless its ID is of before a reset.
THEOREM WorkIsOwn == FleetSpec => []OwnWork
<1>1. FleetInv => OwnWork
  <2> SUFFICES ASSUME FleetInv, NEW p \in Process, NEW c \in 1..MaxCommand, Holds(p, c)
               PROVE  /\ c \in DOMAIN commands /\ commands[c].target = work[p][c].as
                      /\ work[p][c].since = epoch =>
                           /\ work[p][c].as \in DOMAIN agents
                           /\ agents[work[p][c].as].key = IndexKey[p]
    BY DEF OwnWork
  <2>1. HoldsOK(c, work[p][c], p) /\ work[p][c].epoch = epoch
    BY DEF Holds, FleetInv, WorkOK
  <2> QED
    BY <2>1 DEF HoldsOK, FleetInv, ClaimedByTarget
<1> QED
  BY <1>1, FleetInvariant, PTL

\* Two processes hold one command only under one agent ID, and then they are one identity to
\* the API or one of them goes by an ID of before a reset.
THEOREM NothingIsWorkedTwice == FleetSpec => []WorkedOnce
<1>1. FleetInv => WorkedOnce
  <2> SUFFICES ASSUME FleetInv, NEW p \in Process, NEW q \in Process,
                      NEW c \in 1..MaxCommand, Holds(p, c), Holds(q, c)
               PROVE  /\ work[p][c].as = work[q][c].as
                      /\ \/ IndexKey[p] = IndexKey[q]
                         \/ work[p][c].since < epoch \/ work[q][c].since < epoch
    BY DEF WorkedOnce
  <2>1. /\ HoldsOK(c, work[p][c], p) /\ work[p][c].epoch = epoch
        /\ HoldsOK(c, work[q][c], q) /\ work[q][c].epoch = epoch
    BY DEF Holds, FleetInv, WorkOK
  <2>2. /\ epoch \in Nat /\ work[p][c].since \in Nat /\ work[q][c].since \in Nat
    <3>1. work[p][c] \in Work /\ work[q][c] \in Work /\ epoch \in Nat
      BY RegistryFacts DEF FleetInv
    <3> QED
      BY <3>1 DEF Work
  <2> QED
    BY <2>1, <2>2 DEF HoldsOK
<1> QED
  BY <1>1, FleetInvariant, PTL

=============================================================================
