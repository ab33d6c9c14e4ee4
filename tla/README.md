# Fake Platform API: TLA+ models and proofs

The Fake Platform API (`src/`) is a Go server that stands in for a deployment platform while
its agents are developed. It keeps agents, commands, deployments and routes in memory, hands
commands to runtime agents, publishes routes to gateways, and can keep its state in a file.
This directory models that server, checks the models with TLC and proves their main
properties with TLAPS.

## 1. The system

| Part | Code | State | Operations |
|---|---|---|---|
| Commands | `internal/store/commands.go` | `Commands`, `CommandReports` | claim, start, report; lists |
| Deployments | `internal/store/deployments.go` | `Deployments`, counters | create a deployment with its command, create a command |
| Desired state | `internal/store/desired_state.go` | `DesiredStates`, `DesiredStateReports`, versions | upsert and remove routes, bump the version, take a gateway's report |
| Agents | `internal/store/agents.go` | `Agents`, `AgentIndex`, numbers | register, heartbeat, find |
| Reset | `internal/store/testing.go` | all of the above | clear everything, restart the counters |
| State file | `internal/persistence`, `internal/store/snapshot.go`, `cmd/.../main.go` | `path`, `path.tmp` | snapshot loop, last save, load, restore |
| HTTP handlers | `internal/api/handlers_*.go` | none | decode, look up, call the store, answer |
| Router, middleware, responses | `internal/api`, `internal/response` | none | ask for a token, refuse, encode the answer |
| Diagnostics | `Store.Debug`, the testers' lists | none | hand out the store as it is |
| Configuration | `internal/config` | none | read once at the start |
| Agents and gateways | not in this repository | commands in hand, the state fetched last | poll, claim, start, report; fetch, apply, report |

All store methods run under one `RWMutex`, so each is one atomic step. What is not atomic is
everything made of several of them:

* a testing handler looks an agent or a deployment up, releases the lock, and creates a
  command for it later; the polling handlers look the agent up before they read for it;
* an agent's claim, start and report are separate requests, each of which may be carried out
  and its answer lost, and a reset may come between any two of them;
* a gateway fetches a version, applies it and reports, while deployments go on;
* the answers of claim, start, the command lists and the debug dump are encoded from live
  objects after the lock is released, while other requests change them or a reset drops them;
* a save is a snapshot, a truncating open, a write and a rename, done by two goroutines that
  share the name of the temporary file, while handlers write and a reset removes the file;
* a restart takes the store back to its last snapshot, or to nothing if that cannot be loaded,
  and agents and gateways do not know.

What makes each part correct: a command is claimed by its target only, is reported once and
never goes back; an environment has one route per host, each owned by a deployment that
names it; a version stands for one set of routes; a pending route is settled by a report of
the current version and by nothing else; an identity keeps its agent ID; a state file is a
whole snapshot, and no older than the one before. `PROJECT.json` lists the hazards line by
line with the properties that cover them.

## 2. The modules

```
Dispatch   Routing                    StateFile
    \       /     refinement              |  refinement
     Store ------------ extended by --- Api            Persistence     AgentRegistry
       |  \                                                               |
       |   ----------------- extended by --- Fleet ----- instantiates ----
       |
    Platform  (testers, agents, gateways)
       |
    Recovery  (restarts from a snapshot)
```

**Store** models `internal/store` without the agent table: one action per method that changes
state (`InitDeploy`, `CreateCommand`, `ClaimCommand`, `StartCommand`, `ReportCommand`,
`ApplyDesiredStateReport`, `Reset`), for every input a caller may pass. Calls that return an
error and change nothing, idempotent repeats among them, are stuttering steps.
`ReportCommand` includes all it entails: the status of the deployment it names, the route,
the version. IDs are the counters they print. The report's agent ID is left out, since the
code stores it without comparing it.

**Dispatch** and **Routing** say what the store promises, in terms of their own. Dispatch:
a command is issued to one agent, taken by it, ended once, forgotten by a reset. Routing: an
environment has a table from hosts to targets and a version that moves with it; an owner
waits from its publication until the version then current is decided. `ImplementsDispatch` and
`ImplementsRouting` in Store map them onto the code's maps, lists and counters.

**Platform** extends Store with everybody who calls it. Each testing handler is two steps, its
lookup (`AskDeploy`, `AskAbout`, `AskCleanup`) and its write (`Serve`), with any other step in
between; one such request is under way at a time. `ServeReset` clears the store and the
registrations. Agents `Join`, `List`, `CallClaim`, `CallStart` and `CallReport`; each call may
lose its answer (`AnswerLost`), an agent that is refused gives the command up, and `AgentCrash`
loses all it has in hand. Gateways `Fetch`, `SendReport` and `StartOver` when they are unknown;
`outbox` delivers their reports in any order and possibly twice. A tester may name any
`target_agent_id`, which is not looked up: `Stranger` are IDs nobody polls under. `mistaken`
records what a report of before a reset (or restart) has made active without naming it.

**Recovery** extends Platform with the life of the API process. `Save` copies the store to
the file, `Restart` ends the process wherever it is and goes on from the file (`Restore`) or, if
that fails to load, from an empty store beside it; `fetched` and `outbox` stay what they were, and
so does `work`, but for a history field: `RestsOn` names the work that the snapshot knows of
(the command listed and, if it was started, the start), which then counts as work of the new
epoch (`WorkOver`). Numbers and versions issued since the save are issued again. What a save
goes through on the disk is left to Persistence.

**Api** extends Store with connections instead: `Client` requests at once, each at its own
point between lookup, write and answer. An answer from live objects is read command by command
(`Encode`) and sent when it is complete; `Frozen` says what is left of it when a reset replaces
the maps. It has the token check, the refusals with their codes, the lists and the debug dump.

**AgentRegistry** models the agent table with the processes that register. `agentKey` and the
environment-role text are constants of the model: which identities share one is chosen by the
instance. The table's copy in the last snapshot is a variable, so that restart and restore are
steps too. A reset empties both; that the file is removed later than the table is Persistence's
subject.

**Fleet** puts the processes of AgentRegistry under the commands of Store: a process registers
when it has no ID, calls with the ID it goes by (`told`), starts anew, and learns of a reset by a
404 or not at all. Platform has agents where Fleet has processes; there, each agent is alone.
Lookup and write of a testing request are one step, and no snapshot is taken.

**Persistence** models the state file down to inodes: `OpenTmp`, `WriteTmp` and `RenameTmp` for
each of the two goroutines, failures and crashes anywhere, `main`'s shutdown, the loop, the file
side of the reset. A `Start` restores what the file holds, or is empty beside it: the file is
missing or does not parse (`Restored`), or it is intact and cannot be read or has another schema
version (`LoadFails`, which `ignored` remembers until the file is replaced or gone). The contents
of the store are abstracted to an age: resets so far and IDs issued since. **StateFile** is its
abstract specification: a save takes the state and puts it in the file in one step or not at
all, a start has what is stored or is empty, and nothing is promised while two saves clash.

`MCStore`, `MCPlatform`, `MCRecovery`, `MCApi`, `MCFleet` and `MCAgentRegistry` give TLC its small
instances. Modules named `...Proofs` hold the theorems (section 4). Definitions named `Mut...`
are the plausible mistakes each property is tried against.

## 3. What is checked

| Run | Instance | Shows |
|---|---|---|
| StoreProtocol | 2 agents, 2 commands, 2 deployments, 2 gateway reports, versions 0..2 | command protocol, deployment and command pairs, gateway reports, refinement of Dispatch and of Routing |
| StoreRoutes | 2 environments, 1 host, 2 upstreams, 3 commands, 2 deployments | routes, their owners and versions |
| PlatformRoutes | 1 agent, 1 ID nobody polls under, 1 gateway, 2 commands, 2 deployments of one host or none, 1 reset, 1 agent crash, 1 duplicate | active routes are served, pending ones are decided, every command ends |
| Recovery | 1 agent, 1 gateway, 1 command, 1 deployment, 1 save, 1 restart or reset | the store is sound and what callers hold well formed, work only on started commands, whatever is unfinished is up to somebody, commands end and pending routes are decided, with the exceptions below |
| Api | 2 connections, 2 agents, 1 command, 1 deployment, 1 reset, tokens asked for | answers from live objects say what their caller relies on, the dump keeps what it reports |
| PersistenceSaves | 2 goroutines, 4 inodes, 1 write, 1 reset and 1 restart (from the file or beside it), any number of saves | state file readable and never older while saves do not overlap; it catches up; refinement of StateFile |
| AgentRegistry | 4 processes, 2 of one identity text, 2 roles, 1 reset, 1 crash | index sound, IDs not shared and stable |
| Fleet | 3 processes, 2 of one identity text, 1 role, 1 command, 1 reset, 1 process that starts anew | a command is held under one ID and by the identity it is for, and is taken in the end |
| PersistenceCorrupted, PersistenceReset, PlatformRemoved, PlatformActive | the smallest instance that shows it | disagreements of code and documents, see section 5 |

*Bounds.* `MaxCommand`, `MaxDeployment`, `MaxGatewayReport`, `MaxEpoch`, `MaxAsked`,
`MaxAgentCrash`, `MaxDuplicate`, `MaxSave`, `MaxAgent`, `MaxRestart`, `MaxWrite`, `MaxReset`, `MaxCrash`,
`MaxStart` bound counters in guards; nothing else does.

* Store's counters restart with each reset, so its runs cover any number of resets. Two
  deployments of one host are what takeover, stale route IDs and duplicate hosts need; a third
  command lets one of them be removed after the other took over. `StoreRoutes` sends no gateway
  reports, for they do not touch routes; `StoreProtocol` has one environment, for commands know
  none, and two commands: the refinement of Routing is there checked without removals (an owner
  needs a deploy and a remove, and two owners four commands), and proved with them.
* In the Platform runs `MaxGatewayReport` is above what the versions allow, so it never stops a
  delivery. `MaxAsked` lets two commands exist without a reset, or one before and one after it,
  which is what a mistaken ID or version needs. In Recovery `MaxEpoch` counts restarts and resets
  together, and no save follows the last of them, for nobody would read it.
* In Api a second command would only repeat the first, since requests meet over one command or
  over a reset. So do the processes of Fleet, where `MaxAgent` is the number of identities: nobody
  is refused an ID.
* Some dimensions never meet in a run (two commands before a reset, an agent crash with a
  restart, two gateways); for the properties proved in section 4 that does not
  matter. Late and repeated reports of one gateway reach the store in the orders that those of
  two would; different outcomes for one version are in StoreProtocol.
* Deadlock checking is off where a run ends because its bounds are used up.

*Fairness.* `PlatformFairness`: an agent polls, retries and reports what it has started, so the
`Join`, `List` and call actions are weakly fair, the calls without the lost answer (an agent
that repeats a call gets an answer some time); a gateway polls and reports; a report that was
sent arrives. Nothing is asked of testers, crashes or resets, and lookups of before a reset are
not promised. `RecoveryFairness` is the same, and asks nothing of saves and restarts.
`Persistence!Fairness`: the ticker keeps firing and handlers return (weak), and a step of the
loop's save that is possible again and again succeeds some time (strong: the disk does not fail
for ever). `FleetFairness`: processes without an ID register until they are told one, others send
heartbeats and call until they are answered. No fairness is needed by Store, Api and
AgentRegistry.

*Liveness.* `CommandsFinish`: a command ends unless its agent crashed with it in hand, a reset
took it away or a tester made it for an agent there is not. These exceptions are the code's:
`timeout_seconds` is stored and never enforced, and stop and remove take the
`target_agent_id` of the request as it is. In Recovery it also leaves out the commands
`Stranded` by a restart: those that the file has as claimed or running while their agent makes
no call that would move them on, because it has reported them or given them up already, or is
still at an earlier call. `PendingSettles`: a pending route is decided although reports of
superseded versions are discarded.
`NothingIsDropped` says of a state what these two say of a behaviour: somebody has yet to act.
`PendingSettlesAfterRestart` says so over restarts, unless every gateway of the environment
`MistakesVersion`: it fetched a version that was lost with the restart and has the same number as
the current one. `TargetsTake`: a command for an agent of the table is taken although its process
starts anew. `FileCatchesUp`: the state file ends up equal to the store.

*Exceptions the properties spell out.* `ActiveIsServed` asks of an active route that a gateway
has applied exactly this route, of a version no newer than the current one, however many resets
and restarts ago; it excepts the routes in `mistaken`, which a report of before a reset or
restart has made active without naming them, versions being reused. (Without the exception TLC
finds the case in two deployments and a restart.) `WorksOnStarted` speaks of work of the
present epoch: work taken up since the last reset or restart, and work held over restarts that
each time the restored snapshot knew of. `ReadableUnlessOverlap`, `CleanStopKeepsAll` and
`NeverOlder` hold as long as no two saves overlap; `NeverOlder` also excepts a process that has
started empty because it could not load the very file it then replaces. `WorkedOnce` lets two
processes hold one command when they are one identity, or when one of them goes by an ID of
before a reset. All of these happen.

## 4. What is proved

All theorems are for every value of the constants that satisfies the modules' assumptions.

* `StoreProofs`: `TypeCorrect`. `TypeOK` is inductive: it says that the keys of the maps are
  1..counter, which is what makes a new ID fresh. `OnlyTargetClaims`, `ReportedOnce`, `NoWayBack`,
  `PairsStay`: lemma `CallSteps` sums up what a call does to the commands (created, claimed,
  started, reported, untouched); each invariant is inductive together with `TypeOK` and is shown
  once per summary. Lemma `CommandKept` says what no call takes back; the proofs about callers
  rest on it. `StoreImplementsDispatch` maps the summaries to Issue, Take and Finish, everything
  else to a stutter, a reset to Forget. `ReportedOnce` gives the guard of Finish,
  `OnlyTargetClaims` that what is taken was taken by the target.
* `RouteProofs`: `UniqueHosts`, `UniqueRouteIDs`, `RoutesAreOwned`, `StatusNamesRoute`,
  `VersionCounters`, `VersionsNameRoutes`. Their inductive invariant is the conjunction
  `RoutesInv`: none of the parts is inductive alone. That removing the route a deployment names
  leaves every other route its owner needs unique IDs; that retargeting keeps IDs unique needs
  one route per host; that an owner still names the route needs both.
* `GatewayProofs`: `ReportsInOrder`, `PendingIsAwaited`, `SettledByReport`,
  `RoutesChangeOnSuccess`, and `StoreImplementsRouting`. Lemma `GatewaySteps` sums up a step as
  quiet, a publication, a withdrawal, a stored report or a reset. The three facts about reports
  are inductive together on top of `RoutesInv` (`ReportsInv`): a publication may wait for its
  version because no accepted report is ahead of the current one. Routing's `Decide` needs
  `PendingIsAwaited`, its tables being functions of hosts needs `UniqueHosts`.
* `PlatformProofs`, without restarts: `PlatformTypeCorrect`; `PlatformImplementsStore`, by which
  every theorem about Store holds for the store under its callers.
  * `WorkIsStarted`: its inductive invariant `WorkInv` adds what an agent knows of a command from
    the listing on, and that no work is newer than the last reset: that is why a retried start
    that meets a reused ID does no harm to work of the present.
  * `ActiveRoutesAreServed`: what makes it inductive is `HeldIsKnown`, that a state fetched or
    reported in this epoch with the current version has the current routes; it needs
    `VersionsNameRoutes`' reason, that routes only change with the version. A report of an
    earlier epoch that matches names a route or adds it to `mistaken`.
  * `CommandsAreHeld` and `PendingRoutesAreUnderWay` are the safety halves of `CommandsFinish` and
    `PendingSettles`: there is always a call under way or to come that moves the matter on, so
    that fairness is all that is missing. The first (`HandInv`) needs `OnlyTargetClaims`: a claim
    or start of the agent a command is for is either accepted or a repetition, so it is never
    refused and the command never dropped. The second (`UnderWayInv`) needs `HeldIsKnown`: a
    version just issued is one nobody has fetched; and that a delivered report of the current
    version leaves no route pending. `FetchedSinceReset` excludes mistaken versions.
* `PlatformProofs`, over restarts: `SoundOverRestarts`, `WorkIsStartedOverRestarts`,
  `ActiveRoutesAreServedOverRestarts`, `NothingIsDroppedOverRestarts`. The invariants speak of two
  stores, the one in memory and the one in the file (`Saved`): a save makes the second a copy of
  the first, a restart the first a copy of the second or an empty store, everything else is a
  step of Platform. Only state invariants survive this way. What relates a step to the one
  before, such as `NoWayBack`, is just what a restart breaks. Lemma `WorkCarriedOver` is why work
  held over a restart stays good: what `RestsOn` finds in the snapshot is `WorkOK` of the restored
  store, so that from there on it is work like any other. That restored active routes were
  applied needs the same of the file (`SavedServed`), and that reports and `mistaken` only grow.
  `NothingIsDropped` says exactly what a restart may cost: `Stranded` and `Mistakes` are its
  exceptions, and there are no others.
* `ApiProofs`: `ApiImplementsStore`, by which every theorem about Store holds behind the HTTP
  side; `ClaimsAreExclusive`, `AnswersAreTrue`, `DumpsKeepReports`, for any number of connections
  and whatever they ask. `ApiInv` says of each connection what it may rely on at the point where
  it is: what it has looked up, what it was answered, which commands it has yet to encode. A
  reset does not spoil this, for the maps it replaces are still what `Frozen` says; between
  resets `CommandKept` does not. That two agents are not told of one claim is `OnlyTargetClaims`
  carried over the time between the claim and the answer, a dump's reports are `ReportedOnce`
  carried over the time between the snapshot and the last command.
* `FleetProofs`: `FleetImplementsStore` and `FleetImplementsRegistry`: every step is one of Store's
  and one of AgentRegistry's, so that the theorems of both hold (the latter's are used through an
  instance, `Table`). `WorkIsOwn` and `NothingIsWorkedTwice` join them: `FleetInv` adds that what a
  process took up in this epoch is claimed by the ID it went by then (`HoldsOK`), and that an ID it
  was told in this epoch is in the table under its key, which is `RegistryInv`. A step either keeps
  all of that (`Calm`) or clears it (`ResetAll`).
* `AgentRegistryProofs`: `RegistryTypeCorrect`, `TablesAgree`, `IDsNotShared`, `IdentityIsStable`,
  however the identity texts coincide. `RegistryInv` asks the same of the table and its snapshot,
  and that what a process was told in this epoch is in the table under its own key.
* `PersistenceProofs`: `FileTypeCorrect`, `FileIsReadable`, `CleanStopIsComplete`,
  `FileNeverOlder`, `SavesImplementStateFile`. `SaveInv` has two main parts. `Undisturbed`: until
  saves overlap, the inode `path.tmp` names is written by one goroutine from beginning to end, so
  what is renamed is whole. `InOrder`: file, save under way and store are ordered by age.
  It says nothing of a store that was started empty beside the file (`ignored`) until a save of
  that store has replaced it. `LastSave` carries what is known once the handlers have returned to
  the end of the process.

`ReportedVersion` is a bound of the model (the versions a report may name), so the theorems
about Platform and Recovery assume `ReportsAnyVersion`, that it contains every natural number.
Platform assumes that no ID is an agent's and a gateway's (the role is part of an agent's ID);
Fleet assumes of the identities what AgentRegistry does, its state being an instance of it.

Every invariant, action property and refinement that a passing run checks is also proved. Only
model-checked are the liveness properties (`CommandsFinish`, `PendingSettles`,
`PendingSettlesAfterRestart`, `TargetsTake`, `FileCatchesUp`): the proof system does not handle
`ENABLED`, which fairness is made of. What could be proved of them is the part without fairness,
above. Neither does it handle induction over data; no definition here is recursive.

## 5. Where code and documents disagree

With a run:

1. *Two savers, one temporary file* (`persistence.go:48`): a state file can be left half
   written although `Save` promises it never is. Run PersistenceCorrupted.
2. *Reset against a save in flight* (`handlers_testing.go:356`): the file that was removed comes
   back with the old state, and a restart restores it. Run PersistenceReset.
3. *Removed is not final* (`commands.go:206`, specs/06): a deploy reported late revives a removed
   deployment. Run PlatformRemoved.
4. *Active without a route* (`desired_state.go:172`, specs/02): a pending deployment whose host was
   taken over is activated with the one that took it. Run PlatformActive.

Observed while modelling, without a run:

5. *IDs after a crash* (`main.go:89`, decision 26): agents numbered since the last tick are
   forgotten and their IDs given to others; so are command, deployment and route IDs and versions.
6. *A failed stop fails a deployment* (`commands.go:177`, specs/03), if it was just deploying.
7. *The dump is not a snapshot* (`store.go:53`): commands are shown as they are when they are
   encoded, so a final command may come without its report. The converse is excluded
   (`DumpKeepsReports`).
8. *A report can be lost after it was acknowledged*: a crash before the next save leaves the
   command running for ever, its agent being done with it (`Stranded`).
9. *A version can be mistaken after a restart*: a gateway that had fetched the lost version of
   that number sees no reason to fetch again (`MistakesVersion`).
10. *Removing an older deployment of a host that another took over* leaves the newer one
    `route_active` without a route (`commands.go:233`); no document says what should happen.
11. *An agent may go by another's ID after a reset* (`agents.go:46`): if the other registers first
    and the first sends nothing until then, it is never answered 404, and both work on the
    commands of that ID (`WorkedOnce` names the case). Decision 10 only says that IDs start over.
12. *A file that fails to load is overwritten* (`main.go:25`): on a read error or another schema
    version the process starts empty, which decision 26 calls safe, and the next tick replaces an
    intact file by the empty store. No document says what should become of the file.
13. *A merely claimed command may be reported* (`commands.go:145`): specs/06 has no transition from
    claimed to an outcome.
14. *A command may be for nobody* (`handlers_testing.go:127`): a `target_agent_id` in the request is
    not looked up.

## 6. What is not modelled

* Payloads, labels, container names, timestamps, paths and health check paths: no guard reads
  them, and no step of another actor depends on them.
* `handleTestingListAgents`, the lists of deployments, desired states and reports: they change
  nothing, and show live or copied objects the way the lists of commands in Api do.
* CORS headers, `/health`, the text of errors and of log lines, port and token of the
  configuration.
* Within one command, an encoder that reads half of an update; and that the Go runtime may
  end the process when it notices a map read and written at once. The latter is a crash, as in
  Recovery. Api reads each command before or after an update.
* Loss of power: `Save` does not sync, and the order in which the disk then keeps writes is not
  the code's. A `log.Fatalf` of the listener is a crash like others.
* Containers and nginx behind agents and gateways: agents and gateways are modelled as far as
  the API can tell. `test/fake-app` and `test/fake-worker` are containers to deploy by hand.

## 7. Order of work and what is left

Store came first because everything else rests on it: its commands, then its routes and
gateway reports; Platform, for the interleavings; Persistence and AgentRegistry, which share no
state with them. Then the abstract specifications Routing and StateFile, Recovery for the
composition of store and state file, Api for the answers, Fleet for store and agent table; the
proofs followed the modules, those about Api and Fleet last.

Left:
1. Fleet with snapshots, in which a restart reissues both agent IDs and command IDs;
2. the safety half of `TargetsTake` (a process that is told its ID, or will be, for every agent of
   the table) and of `FileCatchesUp` (a tick to come while file and store differ).
