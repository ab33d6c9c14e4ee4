--------------------------- MODULE AgentRegistry ---------------------------
(***************************************************************************)
(* The agent table of package internal/store (agents.go) with the agent    *)
(* processes that use it.                                                  *)
(*                                                                         *)
(* A process registers with an identity (instance, mode, environment,      *)
(* role) and from then on calls with the agent ID it was told.  The table  *)
(* finds an identity again by the text agentKey makes of it, and numbers   *)
(* new agents per environment-role text.  Both texts are joined from their *)
(* parts without escaping, so two identities may share one: which do is a  *)
(* constant of the model.  An agent ID is the numbering text and the       *)
(* number, and can be taken apart again.                                   *)
(***************************************************************************)
EXTENDS Integers

CONSTANTS
  Process,        \* agent processes that may call the API
  IndexKey,       \* the agentKey text of each process
  NumberKey,      \* the "environment-role" text of each process
  NoAgent,        \* a process that holds no agent ID, an index entry that is missing
  MaxAgent,       \* bound: agents numbered per environment-role between two resets
  MaxReset,       \* bound: resets
  MaxCrash        \* bound: crashes of the API

Key  == {IndexKey[p] : p \in Process}
Role == {NumberKey[p] : p \in Process}

ASSUME RegistryAssumption ==
  /\ IndexKey \in [Process -> Key]
  /\ NumberKey \in [Process -> Role]
  /\ MaxAgent \in Nat /\ MaxReset \in Nat /\ MaxCrash \in Nat
  /\ NoAgent \notin Role \X Nat

VARIABLES
  agents,     \* Store.Agents: agent ID -> Agent
  agentIndex, \* Store.AgentIndex: agentKey -> agent ID
  numbers,    \* Store.Counters.AgentByEnvironmentRole
  told,       \* the agent ID each process was last told, or NoAgent
  saved,      \* the table in the last snapshot on disk
  resets,     \* history: resets so far
  crashes,    \* history: crashes so far
  toldIn      \* history: resets and crashes when each process was told its ID

table == <<agents, agentIndex, numbers>>
vars  == <<agents, agentIndex, numbers, told, saved, resets, crashes, toldIn>>

epoch == resets + crashes

-----------------------------------------------------------------------------
AgentID == Role \X (1..MaxAgent)
AgentStatus == {"online", "degraded"}   \* "online" or what a heartbeat said

\* The role stands for environment and role, which never change.
AgentRecord == [key : Key, role : Role, status : AgentStatus]

EmptyTable == [agents     |-> [i \in {} |-> i],
               agentIndex |-> [k \in Key |-> NoAgent],
               numbers    |-> [r \in Role |-> 0]]

SetTable(t) ==
  /\ agents' = t.agents
  /\ agentIndex' = t.agentIndex
  /\ numbers' = t.numbers

Init ==
  /\ agents = EmptyTable.agents
  /\ agentIndex = EmptyTable.agentIndex
  /\ numbers = EmptyTable.numbers
  /\ told = [p \in Process |-> NoAgent]
  /\ saved = EmptyTable
  /\ resets = 0 /\ crashes = 0
  /\ toldIn = [p \in Process |-> 0]

-----------------------------------------------------------------------------
(***************************************************************************)
(* RegisterAgent and the register handler.  The answer may be lost: then   *)
(* the process does not learn its ID and will register again.              *)
(***************************************************************************)
Answer(p, id) ==
  \/ /\ told' = [told EXCEPT ![p] = id]
     /\ toldIn' = [toldIn EXCEPT ![p] = epoch]
  \/ UNCHANGED <<told, toldIn>>

\* The entry is dereferenced without a check: see IndexSound.
ReRegister(p) ==
  LET id == agentIndex[IndexKey[p]]
  IN /\ id # NoAgent
     /\ agents' = [agents EXCEPT ![id].status = "online"]
     /\ UNCHANGED <<agentIndex, numbers>>
     /\ Answer(p, id)

MutFirstAgentID(p) == <<NumberKey[p], 1>>
MutSkippedAgentID(p) == <<NumberKey[p], numbers[NumberKey[p]] + 2>>

NewAgentID(p) == <<NumberKey[p], numbers[NumberKey[p]] + 1>>

MutUnknown(p) == TRUE

Unknown(p) == agentIndex[IndexKey[p]] = NoAgent

RegisterNew(p) ==
  LET id == NewAgentID(p)
  IN /\ Unknown(p)
     /\ numbers[NumberKey[p]] < MaxAgent
     /\ numbers' = [numbers EXCEPT ![NumberKey[p]] = @ + 1]
     /\ agents' = [i \in DOMAIN agents \cup {id} |->
          IF i = id THEN [key |-> IndexKey[p], role |-> NumberKey[p], status |-> "online"]
                    ELSE agents[i]]
     /\ agentIndex' = [agentIndex EXCEPT ![IndexKey[p]] = id]
     /\ Answer(p, id)

RegisterAgent(p) == (ReRegister(p) \/ RegisterNew(p)) /\ UNCHANGED <<saved, resets, crashes>>

\* A heartbeat that names a status overwrites the one in the table.  A process that is
\* answered 404 gives up its ID and registers again.
Heartbeat(p, st) ==
  /\ told[p] # NoAgent
  /\ \/ /\ told[p] \in DOMAIN agents
        /\ agents' = [agents EXCEPT ![told[p]].status = st]
        /\ UNCHANGED told
     \/ /\ told[p] \notin DOMAIN agents
        /\ told' = [told EXCEPT ![p] = NoAgent]
        /\ UNCHANGED agents
  /\ UNCHANGED <<agentIndex, numbers, saved, resets, crashes, toldIn>>

\* A process ends and starts anew with the same identity, knowing no ID.
ProcessRestart(p) ==
  /\ told[p] # NoAgent
  /\ told' = [told EXCEPT ![p] = NoAgent]
  /\ UNCHANGED <<table, saved, resets, crashes, toldIn>>

\* Store.Snapshot, as far as the agents go, and its way to the disk.
SaveTable ==
  /\ saved' = [agents |-> agents, agentIndex |-> agentIndex, numbers |-> numbers]
  /\ UNCHANGED <<table, told, resets, crashes, toldIn>>

MutResetTable == [EmptyTable EXCEPT !.agentIndex = agentIndex]

\* Store.Reset, and the state file goes too.
ResetTable == EmptyTable

Reset ==
  /\ resets < MaxReset
  /\ SetTable(ResetTable)
  /\ saved' = EmptyTable
  /\ resets' = resets + 1
  /\ UNCHANGED <<told, toldIn, crashes>>

\* The API is killed and restarted: Store.Restore puts back the last snapshot.
CrashAndRestore ==
  /\ crashes < MaxCrash
  /\ SetTable(saved)
  /\ crashes' = crashes + 1
  /\ UNCHANGED <<told, saved, toldIn, resets>>

Next ==
  \/ \E p \in Process : RegisterAgent(p) \/ ProcessRestart(p)
  \/ \E p \in Process, st \in AgentStatus : Heartbeat(p, st)
  \/ SaveTable \/ Reset \/ CrashAndRestore

Spec == Init /\ [][Next]_vars

-----------------------------------------------------------------------------
(***************************************************************************)
(* Properties                                                              *)
(***************************************************************************)
Table == [agents : UNION {[D -> AgentRecord] : D \in SUBSET AgentID},
          agentIndex : [Key -> AgentID \cup {NoAgent}],
          numbers : [Role -> 0..MaxAgent]]

\* The table, its copy on disk and what the processes know are well formed.
TypeOK ==
  /\ [agents |-> agents, agentIndex |-> agentIndex, numbers |-> numbers] \in Table
  /\ saved \in Table
  /\ told \in [Process -> AgentID \cup {NoAgent}]
  /\ resets \in 0..MaxReset /\ crashes \in 0..MaxCrash
  /\ toldIn \in [Process -> 0..epoch]

\* Index and table are two views of one set of agents: every entry leads to an agent with
\* that key, so RegisterAgent never dereferences nil, and every agent is indexed.
IndexSound(t) ==
  /\ \A k \in Key : t.agentIndex[k] # NoAgent =>
       t.agentIndex[k] \in DOMAIN t.agents /\ t.agents[t.agentIndex[k]].key = k
  /\ \A i \in DOMAIN t.agents : t.agentIndex[t.agents[i].key] = i

\* No number is ahead of the counter, so the next new agent overwrites none, and the ID
\* of an agent shows its environment and role.
NumbersSound(t) ==
  \A i \in DOMAIN t.agents : i[1] = t.agents[i].role /\ i[2] <= t.numbers[i[1]]

\* Both hold of the table and of the snapshot a restart would bring back.
TableSound ==
  /\ IndexSound([agents |-> agents, agentIndex |-> agentIndex, numbers |-> numbers])
  /\ NumbersSound([agents |-> agents, agentIndex |-> agentIndex, numbers |-> numbers])
  /\ IndexSound(saved) /\ NumbersSound(saved)

\* Two processes that were told the same ID since the last reset or crash are one identity
\* to the API (equal agentKey): registering is a stable naming until then.
NoSharedID ==
  \A p, q \in Process :
    /\ told[p] # NoAgent /\ told[p] = told[q]
    /\ toldIn[p] = epoch /\ toldIn[q] = epoch
    => IndexKey[p] = IndexKey[q]

\* "Re-registration preserves the agent ID": until a reset or a crash an identity keeps
\* its ID and its agent, whatever it and others register or send.
StableIdentity ==
  [][ epoch' = epoch => \A k \in Key : agentIndex[k] # NoAgent =>
        /\ agentIndex'[k] = agentIndex[k]
        /\ agents'[agentIndex[k]].key = k ]_vars

=============================================================================
