------------------------------ MODULE Recovery ------------------------------
(***************************************************************************)
(* The platform around restarts of the API process: main.go, snapshot.go   *)
(* and the file side of the reset, for the whole content of the store.     *)
(*                                                                         *)
(* The process may end at any point and starts again with what the state   *)
(* file holds; agents, gateways and their reports under way know nothing   *)
(* of it.  The file is that of StateFile without a clash: a save puts a    *)
(* whole snapshot in place.  A missing file and the snapshot of an empty   *)
(* store make the process start alike and are not told apart.  A stop on a *)
(* signal is a Save right before the Restart.                              *)
(***************************************************************************)
EXTENDS Platform

CONSTANT MaxSave  \* bound: saves

ASSUME RecoveryAssumption == MaxSave \in Nat

VARIABLES
  saved,  \* the state file: the snapshot a start would restore
  saves   \* how often the store has been saved

recoveryVars == <<platformVars, saved, saves>>

-----------------------------------------------------------------------------
\* The store of a process that finds no file or cannot load it.
NewStore ==
  [commands            |-> EmptyMap,
   deployments         |-> EmptyMap,
   commandReports      |-> << >>,
   desiredStates       |-> [e \in Env |-> [version |-> 0, routes |-> {}]],
   desiredStateReports |-> << >>,
   counters            |-> [command |-> 0, deployment |-> 0, route |-> 0,
                            version |-> [e \in Env |-> 0]],
   registered          |-> {}]

MutSnapshotUncounted ==
  [commands |-> commands, deployments |-> deployments, commandReports |-> commandReports,
   desiredStates |-> desiredStates, desiredStateReports |-> desiredStateReports,
   counters |-> [counters EXCEPT !.route = 0], registered |-> registered]

\* Store.Snapshot copies every field under one read lock.
Snapshot ==
  [commands |-> commands, deployments |-> deployments, commandReports |-> commandReports,
   desiredStates |-> desiredStates, desiredStateReports |-> desiredStateReports,
   counters |-> counters, registered |-> registered]

Restore(s) ==
  /\ commands' = s.commands
  /\ deployments' = s.deployments
  /\ commandReports' = s.commandReports
  /\ desiredStates' = s.desiredStates
  /\ desiredStateReports' = s.desiredStateReports
  /\ counters' = s.counters
  /\ registered' = s.registered

RecoveryInit ==
  /\ PlatformInit
  /\ saved = NewStore
  /\ saves = 0

\* A bound: no save after the last restart, for no start would read it.
Save ==
  /\ saves < MaxSave /\ epoch < MaxEpoch
  /\ saves' = saves + 1
  /\ saved' = Snapshot
  /\ UNCHANGED platformVars

\* A command in flight in snapshot s that its agent will go on with: the agent still holds
\* it at a step whose call the restored command accepts.
Carried(s, c) ==
  LET step == work[s.commands[c].target][c].step
  IN \/ s.commands[c].status = "claimed" /\ step \in {"claim", "start", "report"}
     \/ s.commands[c].status = "running" /\ step \in {"start", "report"}

\* Commands whose end, or whose claim or start, the file has not seen.
Stranded(s) ==
  {c \in DOMAIN s.commands : s.commands[c].status \in {"claimed", "running"} /\ ~Carried(s, c)}

\* Snapshot s has what the agent's work rests on: the command it listed and, if it has
\* started it, that start.
RestsOn(s, a, c) ==
  /\ work[a][c].step # "none"
  /\ c \in DOMAIN s.commands
  /\ s.commands[c].deployment = work[a][c].deployment
  /\ work[a][c].step = "report" =>
       s.commands[c].claimedBy = a /\ s.commands[c].status \in {"running"} \cup FinalStatus

\* The agents go on with what they hold; the epoch says whose word it is.
WorkOver(s) ==
  [a \in Agent |-> [c \in 1..MaxCommand |->
     IF RestsOn(s, a, c) THEN [work[a][c] EXCEPT !.epoch = epoch'] ELSE work[a][c]]]

\* The process ends, with the requests it was serving, and starts again: with the snapshot
\* or, if that cannot be loaded, empty beside it.
Restart ==
  /\ epoch < MaxEpoch
  /\ epoch' = epoch + 1
  /\ \E s \in {saved, NewStore} :
       /\ Restore(s)
       /\ orphaned' = Stranded(s)
       /\ work' = WorkOver(s)
  /\ request' = NoRequest
  /\ forgotten' = {}
  /\ UNCHANGED <<fetched, reported, outbox, sent, mistaken, crashes, duplicates, saved, saves>>

\* The reset removes the file; a save that was in flight may put it back (Persistence,
\* ResetIsFinal).
ResetRemovesFile ==
  /\ ServeReset
  /\ saved' = NewStore
  /\ UNCHANGED saves

RecoveryNext ==
  \/ PlatformNext /\ UNCHANGED <<saved, saves>>
  \/ ResetRemovesFile
  \/ Save
  \/ Restart

RecoverySafety == RecoveryInit /\ [][RecoveryNext]_recoveryVars

\* Agents and gateways go on as before; nothing is asked of saves and restarts.
RecoveryFairness ==
  /\ \A a \in Agent : WF_recoveryVars(Join(a) /\ UNCHANGED <<saved, saves>>)
  /\ \A a \in Agent, c \in 1..MaxCommand :
       /\ WF_recoveryVars(List(a, c) /\ a \in registered /\ UNCHANGED <<saved, saves>>)
       /\ WF_recoveryVars(CallClaim(a, c) /\ ~AnswerLost /\ UNCHANGED <<saved, saves>>)
       /\ WF_recoveryVars(CallStart(a, c) /\ ~AnswerLost /\ UNCHANGED <<saved, saves>>)
       /\ WF_recoveryVars((\E st \in FinalStatus, u \in Upstream : CallReport(a, c, st, u))
                            /\ ~AnswerLost /\ UNCHANGED <<saved, saves>>)
  /\ \A g \in Gateway :
       /\ WF_recoveryVars(Fetch(g) /\ g \in registered /\ UNCHANGED <<saved, saves>>)
       /\ WF_recoveryVars(StartOver(g) /\ UNCHANGED <<saved, saves>>)
       /\ WF_recoveryVars((\E st \in {"applied", "failed"} : SendReport(g, st))
                            /\ UNCHANGED <<saved, saves>>)
  /\ WF_recoveryVars((\E m \in outbox : Deliver(m)) /\ UNCHANGED <<saved, saves>>)

RecoverySpec == RecoverySafety /\ RecoveryFairness

-----------------------------------------------------------------------------
(***************************************************************************)
(* Properties                                                              *)
(***************************************************************************)
\* What is true of a store that is never restarted is true of one that is, at any point and
\* from any snapshot, and what its callers hold stays well formed: numbers issued after a
\* restart meet none the snapshot holds, and no route of it has lost its owner (Snapshot,
\* Restore).
SoundAfterRestart ==
  /\ PlatformTypeOK
  /\ ClaimedByTarget /\ OneReportPerCommand /\ DeployPairs
  /\ OneRoutePerHost /\ RouteIDsUnique /\ RouteOwner /\ RouteStatusNamesRoute /\ VersionsAgree

\* g has reported a state of an earlier epoch whose version happens to be the current one:
\* it sees no reason to fetch the state of now.
Mistakes(g) ==
  /\ reported[g]
  /\ fetched[g].epoch < epoch
  /\ fetched[g].version = desiredStates[GatewayEnv[g]].version

MistakesVersion(e) == \A g \in Gateway : GatewayEnv[g] = e => Mistakes(g)

\* Whatever is unfinished, somebody has yet to act on it, over restarts too: commands in
\* flight are held, and a gateway of a pending route has yet to be heard of the current
\* version unless it mistakes it for one that was lost.
NothingIsDropped ==
  /\ InFlightIsHeld
  /\ \A d \in DOMAIN deployments, g \in Gateway :
       deployments[d].status = "route_pending" /\ deployments[d].env = GatewayEnv[g] =>
         IsToReport(g, desiredStates[GatewayEnv[g]].version) \/ Mistakes(g)

\* A pending route is decided in the end, over restarts too, unless the version it was
\* published in had been fetched before the restart that took it back.
PendingSettlesAfterRestart ==
  \A d \in 1..MaxDeployment :
    d \in DOMAIN deployments /\ deployments[d].status = "route_pending" ~>
      \/ d \notin DOMAIN deployments
      \/ deployments[d].status # "route_pending"
      \/ MistakesVersion(deployments[d].env)

=============================================================================
