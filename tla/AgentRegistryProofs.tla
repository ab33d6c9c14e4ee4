------------------------ MODULE AgentRegistryProofs ------------------------
(***************************************************************************)
(* The agent table for every set of processes, however the texts of their  *)
(* identities coincide, and any number of registrations, resets and        *)
(* crashes.                                                                *)
(***************************************************************************)
EXTENDS AgentRegistry, TLAPS

Current == [agents |-> agents, agentIndex |-> agentIndex, numbers |-> numbers]

Sound(t) == t \in Table /\ IndexSound(t) /\ NumbersSound(t)

\* What a process was told in this epoch is in the table under its own key.
ToldIsKnown ==
  \A p \in Process : told[p] # NoAgent /\ toldIn[p] = epoch =>
    told[p] \in DOMAIN agents /\ agents[told[p]].key = IndexKey[p]

HistoryOK ==
  /\ told \in [Process -> AgentID \cup {NoAgent}]
  /\ resets \in 0..MaxReset /\ crashes \in 0..MaxCrash
  /\ toldIn \in [Process -> 0..epoch]

\* TableSound and TypeOK are inductive together, and give ToldIsKnown.
RegistryInv == Sound(Current) /\ Sound(saved) /\ HistoryOK /\ ToldIsKnown

LEMMA NoAgentIsNoID == NoAgent \notin AgentID
BY RegistryAssumption DEF AgentID

LEMMA EmptySound == Sound(EmptyTable)
<1>1. EmptyTable.agents \in [{} -> AgentRecord] /\ {} \in SUBSET AgentID
  BY DEF EmptyTable
<1>2. EmptyTable.agents \in UNION {[D -> AgentRecord] : D \in SUBSET AgentID}
  BY <1>1
<1>3. EmptyTable.agentIndex \in [Key -> AgentID \cup {NoAgent}]
  BY DEF EmptyTable
<1>4. EmptyTable.numbers \in [Role -> 0..MaxAgent]
  BY RegistryAssumption DEF EmptyTable
<1>5. EmptyTable \in Table
  BY <1>2, <1>3, <1>4 DEF EmptyTable, Table
<1> QED
  BY <1>5, NoAgentIsNoID DEF Sound, IndexSound, NumbersSound, EmptyTable

LEMMA InitRegistry == Init => RegistryInv
<1> SUFFICES ASSUME Init PROVE RegistryInv
  OBVIOUS
<1>1. Current = EmptyTable /\ saved = EmptyTable
  BY DEF Init, Current, EmptyTable
<1>2. HistoryOK
  BY RegistryAssumption DEF Init, HistoryOK, epoch
<1>3. ToldIsKnown
  BY DEF Init, ToldIsKnown
<1> QED
  BY <1>1, <1>2, <1>3, EmptySound DEF RegistryInv

LEMMA TableFields ==
  ASSUME Sound(Current)
  PROVE  /\ DOMAIN agents \subseteq AgentID
         /\ agents \in [DOMAIN agents -> AgentRecord]
         /\ agentIndex \in [Key -> AgentID \cup {NoAgent}]
         /\ numbers \in [Role -> 0..MaxAgent]
BY DEF Sound, Current, Table

\* A table is sound if its fields are what they should be.
LEMMA SoundFields ==
  ASSUME DOMAIN agents' \subseteq AgentID, agents' \in [DOMAIN agents' -> AgentRecord],
         agentIndex' \in [Key -> AgentID \cup {NoAgent}], numbers' \in [Role -> 0..MaxAgent],
         \A k \in Key : agentIndex'[k] # NoAgent =>
           agentIndex'[k] \in DOMAIN agents' /\ agents'[agentIndex'[k]].key = k,
         \A i \in DOMAIN agents' : agentIndex'[agents'[i].key] = i,
         \A i \in DOMAIN agents' : i[1] = agents'[i].role /\ i[2] <= numbers'[i[1]]
  PROVE  Sound(Current)'
<1>1. agents' \in UNION {[E -> AgentRecord] : E \in SUBSET AgentID}
  OBVIOUS
<1>2. Current' \in Table
  BY <1>1 DEF Current, Table
<1> QED
  BY <1>2 DEF Sound, IndexSound, NumbersSound, Current

\* Re-registration and a heartbeat set an agent's status and nothing else.
LEMMA StatusSet ==
  ASSUME RegistryInv, NEW id \in DOMAIN agents, NEW s \in AgentStatus,
         agents' = [agents EXCEPT ![id].status = s], UNCHANGED <<agentIndex, numbers>>
  PROVE  /\ Sound(Current)'
         /\ DOMAIN agents' = DOMAIN agents
         /\ \A i \in DOMAIN agents : agents'[i].key = agents[i].key
<1>1. Sound(Current)
  BY DEF RegistryInv
<1>2. DOMAIN agents \in SUBSET AgentID /\ agents \in [DOMAIN agents -> AgentRecord]
  BY <1>1, TableFields
<1>3. /\ agents' \in [DOMAIN agents -> AgentRecord]
      /\ \A i \in DOMAIN agents : /\ agents'[i].key = agents[i].key
                                  /\ agents'[i].role = agents[i].role
  BY <1>2 DEF AgentRecord
<1>4. /\ \A k \in Key : agentIndex[k] # NoAgent =>
           agentIndex[k] \in DOMAIN agents /\ agents[agentIndex[k]].key = k
      /\ \A i \in DOMAIN agents : agentIndex[agents[i].key] = i
      /\ \A i \in DOMAIN agents : i[1] = agents[i].role /\ i[2] <= numbers[i[1]]
  BY <1>1 DEF Sound, IndexSound, NumbersSound, Current
<1>5. agentIndex' \in [Key -> AgentID \cup {NoAgent}] /\ numbers' \in [Role -> 0..MaxAgent]
  BY <1>1, TableFields
<1>6. Sound(Current)'
  BY <1>2, <1>3, <1>4, <1>5, SoundFields
<1> QED
  BY <1>2, <1>3, <1>6

\* A new agent gets an ID that no agent of the table has.
LEMMA NewAgent ==
  ASSUME RegistryInv, NEW p \in Process, RegisterNew(p)
  PROVE  /\ Sound(Current)'
         /\ NewAgentID(p) \in DOMAIN agents' /\ agents'[NewAgentID(p)].key = IndexKey[p]
         /\ \A i \in DOMAIN agents : i \in DOMAIN agents' /\ agents'[i] = agents[i]
<1> DEFINE id == NewAgentID(p)
           ag == [key |-> IndexKey[p], role |-> NumberKey[p], status |-> "online"]
<1>1. /\ DOMAIN agents \subseteq AgentID /\ agents \in [DOMAIN agents -> AgentRecord]
      /\ agentIndex \in [Key -> AgentID \cup {NoAgent}] /\ numbers \in [Role -> 0..MaxAgent]
  BY TableFields DEF RegistryInv
<1>2. IndexKey[p] \in Key /\ NumberKey[p] \in Role
  BY DEF Key, Role
<1>3. id \in AgentID /\ id[1] = NumberKey[p] /\ id[2] = numbers[NumberKey[p]] + 1
  BY <1>1, <1>2, RegistryAssumption DEF RegisterNew, NewAgentID, AgentID
<1>4. /\ \A k \in Key : agentIndex[k] # NoAgent =>
           agentIndex[k] \in DOMAIN agents /\ agents[agentIndex[k]].key = k
      /\ \A i \in DOMAIN agents : agentIndex[agents[i].key] = i
      /\ \A i \in DOMAIN agents : i[1] = agents[i].role /\ i[2] <= numbers[i[1]]
  BY DEF RegistryInv, Sound, IndexSound, NumbersSound, Current
<1>5. id \notin DOMAIN agents
  BY <1>1, <1>2, <1>3, <1>4
<1>6. /\ DOMAIN agents' = DOMAIN agents \cup {id}
      /\ agents'[id] = ag
      /\ \A i \in DOMAIN agents : agents'[i] = agents[i]
  BY <1>5 DEF RegisterNew
<1>7. ag \in AgentRecord
  BY <1>2 DEF AgentRecord, AgentStatus
<1>8. agents' \in [DOMAIN agents \cup {id} -> AgentRecord]
  BY <1>1, <1>6, <1>7 DEF RegisterNew
<1>9. /\ agentIndex' = [agentIndex EXCEPT ![IndexKey[p]] = id]
      /\ agentIndex[IndexKey[p]] = NoAgent
      /\ numbers' = [numbers EXCEPT ![NumberKey[p]] = numbers[NumberKey[p]] + 1]
      /\ numbers[NumberKey[p]] < MaxAgent
  BY DEF RegisterNew, Unknown
<1>10. agentIndex' \in [Key -> AgentID \cup {NoAgent}] /\ numbers' \in [Role -> 0..MaxAgent]
  BY <1>1, <1>2, <1>3, <1>9, RegistryAssumption
<1>11. ASSUME NEW k \in Key, agentIndex'[k] # NoAgent
       PROVE  agentIndex'[k] \in DOMAIN agents \cup {id} /\ agents'[agentIndex'[k]].key = k
  BY <1>1, <1>2, <1>4, <1>6, <1>9, <1>11
<1>12. ASSUME NEW i \in DOMAIN agents \cup {id}
       PROVE  agentIndex'[agents'[i].key] = i
  <2>1. CASE i = id
    BY <1>1, <1>2, <1>6, <1>9, <2>1
  <2>2. CASE i # id
    <3>1. i \in DOMAIN agents /\ i # NoAgent /\ agents[i].key \in Key
      BY <1>1, <2>2, <1>12, NoAgentIsNoID DEF AgentRecord
    <3>2. agentIndex[agents[i].key] = i /\ agents[i].key # IndexKey[p]
      BY <1>4, <1>9, <3>1
    <3> QED
      BY <1>1, <1>6, <1>9, <3>1, <3>2
  <2> QED
    BY <2>1, <2>2
<1>13. ASSUME NEW i \in DOMAIN agents \cup {id}
       PROVE  i[1] = agents'[i].role /\ i[2] <= numbers'[i[1]]
  <2>1. CASE i = id
    <3>1. numbers'[NumberKey[p]] = numbers[NumberKey[p]] + 1 /\ numbers[NumberKey[p]] \in Nat
      BY <1>1, <1>2, <1>9, RegistryAssumption
    <3> QED
      BY <1>3, <1>6, <2>1, <3>1
  <2>2. CASE i # id
    <3>1. i \in DOMAIN agents /\ agents[i].role \in Role /\ i[2] \in Nat
      BY <1>1, <1>13, <2>2, RegistryAssumption DEF AgentRecord, AgentID
    <3>2. i[1] = agents[i].role /\ i[2] <= numbers[i[1]]
      BY <1>4, <3>1
    <3>3. numbers'[i[1]] >= numbers[i[1]] /\ numbers[i[1]] \in Nat /\ numbers'[i[1]] \in Nat
      BY <1>1, <1>2, <1>9, <3>1, <3>2, RegistryAssumption
    <3> QED
      BY <1>6, <3>1, <3>2, <3>3
  <2> QED
    BY <2>1, <2>2
<1>14. DOMAIN agents' \subseteq AgentID /\ agents' \in [DOMAIN agents' -> AgentRecord]
  BY <1>1, <1>3, <1>6, <1>8
<1>15. Sound(Current)'
  <2>1. \A k \in Key : agentIndex'[k] # NoAgent =>
          agentIndex'[k] \in DOMAIN agents' /\ agents'[agentIndex'[k]].key = k
    BY <1>6, <1>11
  <2>2. \A i \in DOMAIN agents' : agentIndex'[agents'[i].key] = i
    BY <1>6, <1>12
  <2>3. \A i \in DOMAIN agents' : i[1] = agents'[i].role /\ i[2] <= numbers'[i[1]]
    BY <1>6, <1>13
  <2> QED
    BY <1>10, <1>14, <2>1, <2>2, <2>3, SoundFields
<1> QED
  BY <1>6, <1>15

LEMMA RegisterStep ==
  ASSUME RegistryInv, NEW p \in Process, RegisterAgent(p)
  PROVE  RegistryInv'
<1> USE DEF RegistryInv
<1>1. UNCHANGED <<saved, resets, crashes>> /\ epoch' = epoch
  BY DEF RegisterAgent, epoch
<1>2. Sound(saved)'
  <2>1. saved' = saved
    BY <1>1
  <2> QED
    BY <2>1 DEF Sound, IndexSound, NumbersSound
<1>3. PICK id \in DOMAIN agents' :
        /\ Sound(Current)'
        /\ agents'[id].key = IndexKey[p]
        /\ \A i \in DOMAIN agents : i \in DOMAIN agents' /\ agents'[i].key = agents[i].key
        /\ Answer(p, id)
  <2>1. CASE ReRegister(p)
    <3> DEFINE id == agentIndex[IndexKey[p]]
    <3>1. id \in DOMAIN agents /\ agents[id].key = IndexKey[p]
      BY <2>1 DEF ReRegister, Key, Sound, IndexSound, Current
    <3>2. /\ agents' = [agents EXCEPT ![id].status = "online"]
          /\ UNCHANGED <<agentIndex, numbers>> /\ Answer(p, id)
      BY <2>1 DEF ReRegister
    <3>3. "online" \in AgentStatus
      BY DEF AgentStatus
    <3>4. /\ Sound(Current)'
          /\ DOMAIN agents' = DOMAIN agents
          /\ \A i \in DOMAIN agents : agents'[i].key = agents[i].key
      BY <3>1, <3>2, <3>3, StatusSet
    <3> QED
      BY <3>1, <3>2, <3>4
  <2>2. CASE RegisterNew(p)
    <3>1. Answer(p, NewAgentID(p))
      BY <2>2 DEF RegisterNew
    <3> QED
      BY <2>2, <3>1, NewAgent
  <2> QED
    BY <2>1, <2>2 DEF RegisterAgent
<1>4. id \in AgentID
  BY <1>3 DEF Sound, Current, Table
<1>5. epoch \in Nat
  BY DEF HistoryOK, epoch
<1>6. HistoryOK'
  <2>1. told' \in [Process -> AgentID \cup {NoAgent}] /\ toldIn' \in [Process -> 0..epoch]
    BY <1>3, <1>4, <1>5 DEF HistoryOK, Answer
  <2> QED
    BY <1>1, <2>1 DEF HistoryOK
<1>7. ToldIsKnown'
  <2> SUFFICES ASSUME NEW q \in Process, told'[q] # NoAgent, toldIn'[q] = epoch
               PROVE  told'[q] \in DOMAIN agents' /\ agents'[told'[q]].key = IndexKey[q]
    BY <1>1 DEF ToldIsKnown
  <2>1. CASE told'[q] = told[q] /\ toldIn'[q] = toldIn[q]
    BY <1>3, <2>1 DEF ToldIsKnown
  <2>2. CASE q = p /\ told'[q] = id
    BY <1>3, <2>2
  <2> QED
    BY <1>3, <2>1, <2>2 DEF Answer, HistoryOK
<1> QED
  BY <1>2, <1>3, <1>6, <1>7

\* A heartbeat changes the status of one agent, or makes its process forget its ID.
LEMMA HeartbeatStep ==
  ASSUME RegistryInv, NEW p \in Process, NEW st \in AgentStatus, Heartbeat(p, st)
  PROVE  RegistryInv'
<1> USE DEF RegistryInv
<1>1. /\ UNCHANGED <<agentIndex, numbers, saved, resets, crashes, toldIn>>
      /\ epoch' = epoch
  BY DEF Heartbeat, epoch
<1>2. Sound(saved)'
  BY <1>1 DEF Sound, IndexSound, NumbersSound
<1>3. /\ Sound(Current)'
      /\ \A i \in DOMAIN agents : i \in DOMAIN agents' /\ agents'[i].key = agents[i].key
  <2>1. CASE told[p] \in DOMAIN agents /\ agents' = [agents EXCEPT ![told[p]].status = st]
    BY <1>1, <2>1, StatusSet
  <2>2. CASE agents' = agents
    BY <1>1, <2>2 DEF Sound, IndexSound, NumbersSound, Current
  <2> QED
    BY <2>1, <2>2 DEF Heartbeat
<1>4. told' = told \/ told' = [told EXCEPT ![p] = NoAgent]
  BY DEF Heartbeat
<1>5. HistoryOK'
  BY <1>1, <1>4 DEF HistoryOK
<1>6. ToldIsKnown'
  BY <1>1, <1>3, <1>4 DEF ToldIsKnown, HistoryOK
<1> QED
  BY <1>2, <1>3, <1>5, <1>6

\* A new epoch: whatever anybody was told before is history.
LEMMA NewEpoch ==
  ASSUME RegistryInv, told' = told, toldIn' = toldIn, epoch' = epoch + 1,
         resets' \in 0..MaxReset, crashes' \in 0..MaxCrash
  PROVE  HistoryOK' /\ ToldIsKnown'
<1>1. epoch \in Nat /\ toldIn \in [Process -> 0..epoch]
  BY DEF RegistryInv, HistoryOK, epoch
<1>2. toldIn' \in [Process -> 0..epoch'] /\ \A p \in Process : toldIn'[p] # epoch'
  BY <1>1
<1> QED
  BY <1>2 DEF RegistryInv, HistoryOK, ToldIsKnown

LEMMA RegistryStep == RegistryInv /\ [Next]_vars => RegistryInv'
<1> SUFFICES ASSUME RegistryInv, [Next]_vars PROVE RegistryInv'
  OBVIOUS
<1>1. ASSUME NEW p \in Process, RegisterAgent(p) PROVE RegistryInv'
  BY <1>1, RegisterStep
<1>2. ASSUME NEW p \in Process, NEW st \in AgentStatus, Heartbeat(p, st) PROVE RegistryInv'
  BY <1>2, HeartbeatStep
<1>3. ASSUME NEW p \in Process, ProcessRestart(p) PROVE RegistryInv'
  <2>1. /\ UNCHANGED <<agents, agentIndex, numbers, saved, resets, crashes, toldIn>>
        /\ told' = [told EXCEPT ![p] = NoAgent]
        /\ epoch' = epoch
    BY <1>3 DEF ProcessRestart, table, epoch
  <2>2. Sound(Current)' /\ Sound(saved)'
    BY <2>1 DEF RegistryInv, Sound, IndexSound, NumbersSound, Current
  <2>3. HistoryOK' /\ ToldIsKnown'
    BY <2>1 DEF RegistryInv, HistoryOK, ToldIsKnown
  <2> QED
    BY <2>2, <2>3 DEF RegistryInv
<1>4. CASE SaveTable
  <2>1. /\ UNCHANGED <<agents, agentIndex, numbers, told, resets, crashes, toldIn>>
        /\ saved' = Current /\ epoch' = epoch
    BY <1>4 DEF SaveTable, table, Current, epoch
  <2>2. Sound(Current)' /\ Sound(saved)'
    BY <2>1 DEF RegistryInv, Sound, IndexSound, NumbersSound, Current
  <2>3. HistoryOK' /\ ToldIsKnown'
    BY <2>1 DEF RegistryInv, HistoryOK, ToldIsKnown
  <2> QED
    BY <2>2, <2>3 DEF RegistryInv
<1>5. CASE Reset
  <2>1. Current' = EmptyTable /\ saved' = EmptyTable
    BY <1>5 DEF Reset, SetTable, ResetTable, Current, EmptyTable
  <2>2. Sound(Current)' /\ Sound(saved)'
    BY <2>1, EmptySound DEF Sound, IndexSound, NumbersSound
  <2>3. HistoryOK' /\ ToldIsKnown'
    <3>1. /\ told' = told /\ toldIn' = toldIn
          /\ resets' \in 0..MaxReset /\ crashes' \in 0..MaxCrash /\ epoch' = epoch + 1
      BY <1>5, RegistryAssumption DEF RegistryInv, HistoryOK, Reset, epoch
    <3> QED
      BY <3>1, NewEpoch
  <2> QED
    BY <2>2, <2>3 DEF RegistryInv
<1>6. CASE CrashAndRestore
  <2>1. saved' = saved /\ Sound(saved)
    BY <1>6 DEF CrashAndRestore, RegistryInv
  <2>2. Current' = saved
    <3>1. saved = [agents |-> saved.agents, agentIndex |-> saved.agentIndex,
                   numbers |-> saved.numbers]
      BY <2>1 DEF Sound, Table
    <3> QED
      BY <1>6, <3>1 DEF CrashAndRestore, SetTable, Current
  <2>3. Sound(Current)' /\ Sound(saved)'
    BY <2>1, <2>2 DEF Sound, IndexSound, NumbersSound
  <2>4. HistoryOK' /\ ToldIsKnown'
    <3>1. /\ told' = told /\ toldIn' = toldIn
          /\ resets' \in 0..MaxReset /\ crashes' \in 0..MaxCrash /\ epoch' = epoch + 1
      BY <1>6, RegistryAssumption DEF RegistryInv, HistoryOK, CrashAndRestore, epoch
    <3> QED
      BY <3>1, NewEpoch
  <2> QED
    BY <2>3, <2>4 DEF RegistryInv
<1>7. CASE UNCHANGED vars
  <2>1. UNCHANGED <<agents, agentIndex, numbers, told, saved, resets, crashes, toldIn>>
    BY <1>7 DEF vars, table
  <2>2. Sound(Current)' /\ Sound(saved)'
    BY <2>1 DEF RegistryInv, Sound, IndexSound, NumbersSound, Current
  <2>3. HistoryOK' /\ ToldIsKnown'
    BY <2>1 DEF RegistryInv, HistoryOK, ToldIsKnown, epoch
  <2> QED
    BY <2>2, <2>3 DEF RegistryInv
<1> QED
  BY <1>1, <1>2, <1>3, <1>4, <1>5, <1>6, <1>7 DEF Next

LEMMA RegistryInvariant == Spec => []RegistryInv
<1>1. Init => RegistryInv
  BY InitRegistry
<1>2. RegistryInv /\ [Next]_vars => RegistryInv'
  BY RegistryStep
<1> QED
  BY <1>1, <1>2, PTL DEF Spec

\* The table, the snapshot of it and what processes hold are well formed for ever.
THEOREM RegistryTypeCorrect == Spec => []TypeOK
<1>1. RegistryInv => TypeOK
  BY DEF RegistryInv, Sound, Current, HistoryOK, TypeOK
<1> QED
  BY <1>1, RegistryInvariant, PTL

\* Index and table never disagree, in memory or on disk: RegisterAgent finds no dangling
\* entry and overwrites no agent.
THEOREM TablesAgree == Spec => []TableSound
<1>1. RegistryInv => TableSound
  BY DEF RegistryInv, Sound, Current, TableSound
<1> QED
  BY <1>1, RegistryInvariant, PTL

\* Up to a reset or a crash nobody is told an ID that another identity was told.
THEOREM IDsNotShared == Spec => []NoSharedID
<1>1. RegistryInv => NoSharedID
  BY DEF RegistryInv, ToldIsKnown, NoSharedID
<1> QED
  BY <1>1, RegistryInvariant, PTL

\* Only a reset or a crash takes an entry out of the index or an agent out of the table.
LEMMA IndexStays ==
  ASSUME RegistryInv, [Next]_vars, epoch' = epoch, NEW k \in Key, agentIndex[k] # NoAgent
  PROVE  /\ agentIndex'[k] = agentIndex[k]
         /\ agentIndex[k] \in DOMAIN agents' /\ agents'[agentIndex[k]].key = k
<1>1. agentIndex'[k] = agentIndex[k]
  <2>1. \A p \in Process : RegisterNew(p) =>
          agentIndex' = [agentIndex EXCEPT ![IndexKey[p]] = NewAgentID(p)]
          /\ agentIndex[IndexKey[p]] = NoAgent
    BY DEF RegisterNew, Unknown
  <2>2. agentIndex \in [Key -> AgentID \cup {NoAgent}]
    BY TableFields DEF RegistryInv
  <2>3. ~Reset /\ ~CrashAndRestore
    <3>1. resets \in Nat /\ crashes \in Nat
      BY RegistryAssumption DEF RegistryInv, HistoryOK
    <3>2. resets' + crashes' = resets + crashes
      BY DEF epoch
    <3> QED
      BY <3>1, <3>2 DEF Reset, CrashAndRestore
  <2> QED
    BY <2>1, <2>2, <2>3
    DEF Next, RegisterAgent, ReRegister, ProcessRestart, Heartbeat, SaveTable, table, vars
<1>2. RegistryInv'
  BY RegistryStep
<1>3. agentIndex'[k] # NoAgent =>
        agentIndex'[k] \in DOMAIN agents' /\ agents'[agentIndex'[k]].key = k
  BY <1>2 DEF RegistryInv, Sound, IndexSound, Current
<1> QED
  BY <1>1, <1>3

LEMMA AgentsStay ==
  ASSUME RegistryInv, [Next]_vars, epoch' = epoch, NEW i \in DOMAIN agents
  PROVE  i \in DOMAIN agents' /\ agents'[i].key = agents[i].key
<1>1. i \in AgentID /\ i # NoAgent /\ agents[i] \in AgentRecord
  BY TableFields, NoAgentIsNoID DEF RegistryInv
<1>2. agents[i].key \in Key /\ agentIndex[agents[i].key] = i
  BY <1>1 DEF RegistryInv, Sound, IndexSound, Current, AgentRecord
<1> QED
  BY <1>1, <1>2, IndexStays

\* Up to a reset or a crash an identity keeps its agent ID (RegisterAgent).
THEOREM IdentityIsStable == Spec => StableIdentity
<1>1. RegistryInv /\ [Next]_vars =>
        (epoch' = epoch => \A k \in Key : agentIndex[k] # NoAgent =>
           /\ agentIndex'[k] = agentIndex[k]
           /\ agents'[agentIndex[k]].key = k)
  BY IndexStays
<1> QED
  BY <1>1, RegistryInvariant, PTL DEF Spec, StableIdentity

=============================================================================
