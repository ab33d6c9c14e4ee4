------------------------------ MODULE ApiProofs ------------------------------
(***************************************************************************)
(* The answers of the HTTP side, for any number of connections: although   *)
(* they are written from live commands after the lock is released, they    *)
(* say what their caller relies on.                                        *)
(*                                                                         *)
(* Three things make it true.  What a request relies on when it takes a    *)
(* command in hand is something no later call takes back (CommandKept); a  *)
(* reset does not change the commands it removes, so a request that holds  *)
(* them shows what it would have shown before; and the map of commands     *)
(* only grows up to the next reset, so the dump misses no command its      *)
(* reports are about.                                                      *)
(***************************************************************************)
EXTENDS Api, StoreProofs

\* A record of the fields of Request, whatever their values.
IsRequest(r) ==
  r = [pc |-> r.pc, endpoint |-> r.endpoint, agent |-> r.agent, command |-> r.command,
       deployment |-> r.deployment, since |-> r.since, held |-> r.held, shown |-> r.shown,
       reports |-> r.reports]

\* Between its lookup and its write a request has what the write needs, and nothing in hand.
FoundOK(r) ==
  /\ r.endpoint \in {"pending", "deploy"} \cup DOMAIN CommandOf
  /\ r.agent \in Agent
  /\ r.endpoint \in {"stop", "remove"} => r.deployment \in 1..MaxDeployment
  /\ r.endpoint = "cleanup" => r.deployment = NoID
  /\ r.held = {} /\ r.shown = EmptyMap /\ r.reports = << >>

\* What r relies on of the command it shows under ID c.
Relied(r, c, v) ==
  /\ r.endpoint = "claim" =>
       v.status \in {"claimed", "running"} \cup FinalStatus /\ v.claimedBy = r.agent
  /\ r.endpoint = "start" => v.status \in Begun /\ v.claimedBy = r.agent
  /\ r.endpoint = "pending" => v.target = r.agent
  /\ \A i \in DOMAIN r.reports :
       r.reports[i].command = c => v.status = r.reports[i].status

ReportsIn(r, ids) == \A i \in DOMAIN r.reports : r.reports[i].command \in ids

\* A request under way, with cs the commands of the store: what it has shown can be relied
\* on, and so can what it would show if it read the rest now.
RequestOK(r, cs) ==
  /\ IsRequest(r)
  /\ r.pc \in {"found", "dump", "encode", "detached"}
  /\ r.pc = "found" => FoundOK(r)
  /\ \A i \in DOMAIN r.reports : r.reports[i].status \in FinalStatus
  /\ r.pc = "dump" =>
       /\ r.endpoint = "debug" /\ r.shown = EmptyMap
       /\ ReportsIn(r, DOMAIN cs)
       /\ \A c \in DOMAIN cs : Relied(r, c, cs[c])
  /\ r.pc = "encode" => r.held \subseteq DOMAIN cs /\ \A c \in r.held : Relied(r, c, cs[c])
  /\ r.pc = "detached" => DOMAIN r.shown = r.held
  /\ r.pc \in {"encode", "detached"} =>
       /\ ReportsIn(r, r.held)
       /\ r.endpoint \in {"claim", "start"} => r.held = {r.command}
       /\ DOMAIN r.shown \subseteq r.held
       /\ \A c \in DOMAIN r.shown : Relied(r, c, r.shown[c])

UnderWay == {k \in Client : conn[k] # Idle}

ClaimOf(r) == [command |-> r.command, agent |-> r.agent, epoch |-> r.since]

\* The claims that were accepted, answered or not.
Claims == told \cup {ClaimOf(conn[k]) : k \in {j \in UnderWay : conn[j].endpoint = "claim"}}

\* One agent holds a command in each epoch, and in this epoch it is the one the store names.
ClaimsOK ==
  /\ \A s, t \in Claims : s.command = t.command /\ s.epoch = t.epoch => s.agent = t.agent
  /\ \A t \in Claims :
       /\ t.epoch \in Nat /\ t.epoch <= epoch
       /\ t.epoch = epoch =>
            /\ t.command \in DOMAIN commands
            /\ commands[t.command].status # "pending"
            /\ commands[t.command].claimedBy = t.agent

ApiInv ==
  /\ TypeOK /\ OneReportPerCommand
  /\ registered \subseteq Agent
  /\ epoch \in Nat
  /\ conn = [k \in Client |-> conn[k]]
  /\ \A k \in UnderWay : RequestOK(conn[k], commands)
  /\ ClaimsOK
  /\ AnswersTrue /\ DumpKeepsReports

-----------------------------------------------------------------------------
(***************************************************************************)
(* Requests while others are served.                                       *)
(***************************************************************************)
LEMMA StoreKept ==
  ASSUME TypeOK, OneReportPerCommand, StoreCall
  PROVE  TypeOK' /\ OneReportPerCommand'
BY TypeStep, OneReportStep DEF StoreCall, Next

\* What is relied on is not taken back.
LEMMA ReliedKept ==
  ASSUME TypeOK, StoreCall, NEW r, NEW c \in DOMAIN commands, Relied(r, c, commands[c]),
         \A i \in DOMAIN r.reports : r.reports[i].status \in FinalStatus
  PROVE  c \in DOMAIN commands' /\ Relied(r, c, commands'[c])
<1>1. /\ c \in DOMAIN commands'
      /\ commands'[c].target = commands[c].target
      /\ commands[c].status # "pending" =>
           commands'[c].status # "pending" /\ commands'[c].claimedBy = commands[c].claimedBy
      /\ commands[c].status \in Begun => commands'[c].status \in Begun
      /\ commands[c].status \in FinalStatus => commands'[c].status = commands[c].status
  BY CommandKept DEF StoreCall
<1>2. /\ "pending" \notin {"claimed", "running"} \cup FinalStatus
      /\ Begun = {"running"} \cup FinalStatus
      /\ CommandStatus = {"pending", "claimed", "running"} \cup FinalStatus
  BY DEF Begun, CommandStatus, FinalStatus
<1>3. commands'[c].status \in CommandStatus
  <2>1. TypeOK'
    BY TypeStep DEF StoreCall, Next
  <2>2. commands'[c] \in Command
    BY <1>1, <2>1 DEF TypeOK
  <2> QED
    BY <2>2 DEF Command
<1> QED
  BY <1>1, <1>2, <1>3 DEF Relied

LEMMA RequestKept ==
  ASSUME TypeOK, StoreCall, NEW r, RequestOK(r, commands)
  PROVE  RequestOK(r, commands')
<1>1. \A i \in DOMAIN r.reports : r.reports[i].status \in FinalStatus
  BY DEF RequestOK
<1>2. \A c \in DOMAIN commands : c \in DOMAIN commands'
  BY CommandKept DEF StoreCall
<1>3. \A c \in DOMAIN commands : Relied(r, c, commands[c]) => Relied(r, c, commands'[c])
  BY <1>1, ReliedKept
<1>4. ASSUME r.pc = "dump", NEW c \in DOMAIN commands' PROVE Relied(r, c, commands'[c])
  <2>1. CASE c \in DOMAIN commands
    BY <1>3, <1>4, <2>1 DEF RequestOK
  <2>2. CASE c \notin DOMAIN commands
    BY <1>4, <2>2 DEF RequestOK, ReportsIn, Relied
  <2> QED
    BY <2>1, <2>2
<1>5. r.pc = "dump" => ReportsIn(r, DOMAIN commands')
  BY <1>2 DEF RequestOK, ReportsIn
<1>6. r.pc = "encode" =>
        r.held \subseteq DOMAIN commands' /\ \A c \in r.held : Relied(r, c, commands'[c])
  BY <1>2, <1>3 DEF RequestOK
<1> QED
  BY <1>4, <1>5, <1>6 DEF RequestOK

\* A reset leaves a request with everything it holds, whatever comes after it.
LEMMA FrozenOK ==
  ASSUME NEW r, NEW cs, RequestOK(r, commands)
  PROVE  /\ RequestOK(Frozen(r), cs)
         /\ Frozen(r).endpoint = r.endpoint /\ Frozen(r).command = r.command
         /\ Frozen(r).agent = r.agent /\ Frozen(r).since = r.since
<1>1. CASE r.pc \notin {"dump", "encode"}
  BY <1>1 DEF RequestOK, Frozen
<1>2. CASE r.pc \in {"dump", "encode"}
  <2> DEFINE ids == IF r.pc = "dump" THEN DOMAIN commands ELSE r.held
             all == ReadAll(r, ids)
             q   == [r EXCEPT !.pc = "detached", !.held = ids, !.shown = all]
  <2>1. Frozen(r) = q
    BY <1>2 DEF Frozen
  <2>2. DOMAIN all = ids /\ \A c \in ids :
          all[c] = IF c \in DOMAIN r.shown THEN r.shown[c] ELSE commands[c]
    BY DEF ReadAll
  <2> HIDE DEF ids, all
  <2>3. /\ IsRequest(q)
        /\ q.pc = "detached" /\ q.held = ids /\ q.shown = all /\ q.reports = r.reports
        /\ q.endpoint = r.endpoint /\ q.command = r.command
        /\ q.agent = r.agent /\ q.since = r.since
    <3>1. IsRequest(r)
      BY DEF RequestOK
    <3> DEFINE q1 == [r EXCEPT !.pc = "detached"]
               q2 == [q1 EXCEPT !.held = ids]
    <3>2. q = [q2 EXCEPT !.shown = all]
      BY ONLY TRUE
    <3> HIDE DEF q
    <3>3. q1 = [pc |-> "detached", endpoint |-> r.endpoint, agent |-> r.agent,
               command |-> r.command, deployment |-> r.deployment, since |-> r.since,
               held |-> r.held, shown |-> r.shown, reports |-> r.reports]
      BY ONLY <3>1 DEF IsRequest
    <3> HIDE DEF q1
    <3>4. q2 = [pc |-> "detached", endpoint |-> r.endpoint, agent |-> r.agent,
               command |-> r.command, deployment |-> r.deployment, since |-> r.since,
               held |-> ids, shown |-> r.shown, reports |-> r.reports]
      BY ONLY <3>3
    <3> HIDE DEF q2
    <3>5. q = [pc |-> "detached", endpoint |-> r.endpoint, agent |-> r.agent,
               command |-> r.command, deployment |-> r.deployment, since |-> r.since,
               held |-> ids, shown |-> all, reports |-> r.reports]
      BY ONLY <3>2, <3>4
    <3> QED
      BY <3>5 DEF IsRequest
  <2>4. \A c \in ids : Relied(r, c, all[c])
    BY <1>2, <2>2 DEF RequestOK, ids, EmptyMap
  <2>5. \A c \in ids : Relied(q, c, all[c])
    BY <2>3, <2>4 DEF Relied
  <2>6. /\ ReportsIn(r, ids)
        /\ r.endpoint \in {"claim", "start"} => ids = {r.command}
    BY <1>2 DEF RequestOK, ids
  <2>7. ReportsIn(q, ids)
    BY <2>3, <2>6 DEF ReportsIn
  <2>8. \A i \in DOMAIN q.reports : q.reports[i].status \in FinalStatus
    BY <2>3 DEF RequestOK
  <2> QED
    BY <2>1, <2>2, <2>3, <2>5, <2>6, <2>7, <2>8 DEF RequestOK
<1> QED
  BY <1>1, <1>2

-----------------------------------------------------------------------------
(***************************************************************************)
(* One step of a handler: it goes on with a request, or ends with an       *)
(* answer.                                                                 *)
(***************************************************************************)
\* r after a step: what a handler changes of a request until it answers.
Made(r, pc, agent, held, shown, reports) ==
  [pc |-> pc, endpoint |-> r.endpoint, agent |-> agent, command |-> r.command,
   deployment |-> r.deployment, since |-> r.since, held |-> held, shown |-> shown,
   reports |-> reports]

LEMMA MadeIsRequest ==
  ASSUME NEW r, NEW pc, NEW agent, NEW held, NEW shown, NEW reports
  PROVE  LET q == Made(r, pc, agent, held, shown, reports)
         IN /\ IsRequest(q)
            /\ q.pc = pc /\ q.agent = agent /\ q.held = held /\ q.shown = shown
            /\ q.reports = reports
            /\ q.endpoint = r.endpoint /\ q.command = r.command
            /\ q.deployment = r.deployment /\ q.since = r.since
BY DEF Made, IsRequest

WithPc(r, v)      == [r EXCEPT !.pc = v]
WithAgent(r, v)   == [r EXCEPT !.agent = v]
WithHeld(r, v)    == [r EXCEPT !.held = v]
WithShown(r, v)   == [r EXCEPT !.shown = v]
WithReports(r, v) == [r EXCEPT !.reports = v]

LEMMA Making ==
  ASSUME NEW r, IsRequest(r), NEW pc, NEW v
  PROVE  /\ WithPc(r, pc) = Made(r, pc, r.agent, r.held, r.shown, r.reports)
         /\ WithPc(WithAgent(r, v), pc) = Made(r, pc, v, r.held, r.shown, r.reports)
         /\ WithPc(WithHeld(r, v), pc) = Made(r, pc, r.agent, v, r.shown, r.reports)
         /\ WithPc(WithShown(r, v), pc) = Made(r, pc, r.agent, r.held, v, r.reports)
         /\ WithPc(WithReports(r, v), pc) = Made(r, pc, r.agent, r.held, r.shown, v)
<1>1. ASSUME NEW q, IsRequest(q)
      PROVE  WithPc(q, pc) = Made(q, pc, q.agent, q.held, q.shown, q.reports)
  BY ONLY <1>1 DEF IsRequest, Made, WithPc
<1>2. /\ WithAgent(r, v) = Made(r, r.pc, v, r.held, r.shown, r.reports)
      /\ WithHeld(r, v) = Made(r, r.pc, r.agent, v, r.shown, r.reports)
      /\ WithShown(r, v) = Made(r, r.pc, r.agent, r.held, v, r.reports)
      /\ WithReports(r, v) = Made(r, r.pc, r.agent, r.held, r.shown, v)
  BY DEF IsRequest, Made, WithAgent, WithHeld, WithShown, WithReports
<1>3. ASSUME NEW a, NEW h, NEW s, NEW x
      PROVE  WithPc(Made(r, r.pc, a, h, s, x), pc) = Made(r, pc, a, h, s, x)
  <2> DEFINE q == Made(r, r.pc, a, h, s, x)
  <2>1. /\ IsRequest(q)
        /\ q.agent = a /\ q.held = h /\ q.shown = s /\ q.reports = x
        /\ q.endpoint = r.endpoint /\ q.command = r.command
        /\ q.deployment = r.deployment /\ q.since = r.since
    BY MadeIsRequest
  <2> HIDE DEF q
  <2>2. WithPc(q, pc) = Made(q, pc, a, h, s, x)
    BY <1>1, <2>1
  <2>3. Made(q, pc, a, h, s, x) = Made(r, pc, a, h, s, x)
    BY <2>1 DEF Made
  <2> QED
    BY <2>2, <2>3 DEF q
<1> QED
  BY <1>1, <1>2, <1>3

\* Reading one more of the commands in hand.
LEMMA ReadOK ==
  ASSUME NEW r, NEW c \in r.held, r.pc = "encode", RequestOK(r, commands)
  PROVE  RequestOK(Made(r, "encode", r.agent, r.held, Put(r.shown, c, commands[c]), r.reports),
                   commands)
<1> DEFINE more == Put(r.shown, c, commands[c])
           q    == Made(r, "encode", r.agent, r.held, more, r.reports)
<1>1. DOMAIN more = DOMAIN r.shown \cup {c}
      /\ \A x \in DOMAIN more : more[x] = IF x = c THEN commands[c] ELSE r.shown[x]
  BY DEF Put
<1> HIDE DEF more
<1>2. /\ IsRequest(q)
      /\ q.pc = r.pc /\ q.held = r.held /\ q.shown = more /\ q.reports = r.reports
      /\ q.endpoint = r.endpoint /\ q.command = r.command /\ q.agent = r.agent
  BY MadeIsRequest
<1> HIDE DEF q
<1>3. \A x \in DOMAIN more : Relied(r, x, more[x])
  BY <1>1 DEF RequestOK
<1>4. /\ \A x \in DOMAIN more : Relied(q, x, more[x])
      /\ \A x \in r.held : Relied(q, x, commands[x])
  BY <1>2, <1>3 DEF Relied, RequestOK
<1>5. DOMAIN more \subseteq r.held
  BY <1>1 DEF RequestOK
<1>6. ReportsIn(q, q.held) /\ \A i \in DOMAIN q.reports : q.reports[i].status \in FinalStatus
  BY <1>2 DEF RequestOK, ReportsIn
<1>7. q.endpoint \in {"claim", "start"} => q.held = {q.command}
  BY <1>2 DEF RequestOK
<1>8. q.held \subseteq DOMAIN commands
  BY <1>2 DEF RequestOK
<1>9. RequestOK(q, commands)
  BY <1>2, <1>4, <1>5, <1>6, <1>7, <1>8 DEF RequestOK
<1> QED
  BY <1>9 DEF q, more

\* A claim that this step accepts.
NewClaim(t) ==
  /\ t.epoch = epoch
  /\ t.command \in DOMAIN commands'
  /\ commands'[t.command].status # "pending"
  /\ commands'[t.command].claimedBy = t.agent

Sets(k, r) == conn' = [conn EXCEPT ![k] = r] /\ answer' = NoAnswer

Moves(k, r) ==
  /\ Sets(k, r)
  /\ RequestOK(r, commands')
  /\ r.endpoint = "claim" => ClaimOf(r) \in Claims \/ NewClaim(ClaimOf(r))
  /\ told' = told

Ends(k) ==
  /\ conn' = [conn EXCEPT ![k] = Idle]
  /\ told' \subseteq Claims
  /\ AnswersTrue' /\ DumpKeepsReports'

\* A step of k between two resets.
Serves(k) ==
  /\ StoreCall
  /\ registered' \subseteq Agent
  /\ epoch' = epoch
  /\ (\E r : Moves(k, r)) \/ Ends(k)

\* An answer 200 that says what its caller relies on.
Fine(r) ==
  /\ r.endpoint = "claim" => ShownAs(r, {"claimed", "running"} \cup FinalStatus)
  /\ r.endpoint = "start" => ShownAs(r, {"running"} \cup FinalStatus)
  /\ r.endpoint = "pending" => \A c \in DOMAIN r.shown : r.shown[c].target = r.agent
  /\ \A i \in DOMAIN r.reports :
       /\ r.reports[i].command \in DOMAIN r.shown
       /\ r.shown[r.reports[i].command].status = r.reports[i].status

LEMMA Ending ==
  ASSUME NEW k \in Client, NEW r, IsRequest(r), NEW code, Answer(k, r, code),
         code # 200 \/ Fine(r), told' \subseteq Claims
  PROVE  Ends(k)
<1> DEFINE q == Made(r, "done", r.agent, r.held, r.shown, r.reports)
<1>1. answer' = [code |-> code, request |-> q] /\ conn' = [conn EXCEPT ![k] = Idle]
  BY Making DEF Answer, WithPc
<1>2. /\ q.agent = r.agent /\ q.shown = r.shown /\ q.reports = r.reports
      /\ q.endpoint = r.endpoint /\ q.command = r.command
  BY MadeIsRequest
<1> HIDE DEF q
<1>3. Fine(r) => Fine(q)
  BY <1>2 DEF Fine, ShownAs
<1>4. answer'.code = code /\ answer'.request = q
  BY <1>1
<1>5. AnswersTrue' /\ DumpKeepsReports'
  BY <1>3, <1>4 DEF AnswersTrue, DumpKeepsReports, Fine, ShownAs
<1> QED
  BY <1>1, <1>5 DEF Ends

\* Most answers show no command and carry no reports.
LEMMA PlainIsFine ==
  ASSUME NEW r, r.endpoint \notin {"claim", "start", "pending"}, r.reports = << >>
  PROVE  Fine(r)
BY DEF Fine

LEMMA RequestFields ==
  ASSUME NEW e, NEW a, NEW c, NEW d
  PROVE  LET r == Request(e, a, c, d)
         IN /\ IsRequest(r)
            /\ r.pc = "new" /\ r.endpoint = e /\ r.agent = a /\ r.command = c
            /\ r.deployment = d /\ r.since = epoch
            /\ r.held = {} /\ r.shown = EmptyMap /\ r.reports = << >>
BY DEF Request, IsRequest

-----------------------------------------------------------------------------
(***************************************************************************)
(* Between two resets such steps keep the invariant.                       *)
(***************************************************************************)
LEMMA ClaimsKept ==
  ASSUME ApiInv, StoreCall, epoch' = epoch,
         \A t \in Claims' : t \in Claims \/ NewClaim(t)
  PROVE  ClaimsOK'
<1> USE DEF ApiInv
<1>1. ASSUME NEW t \in Claims'
      PROVE  /\ t.epoch \in Nat /\ t.epoch <= epoch
             /\ t.epoch = epoch =>
                  /\ t.command \in DOMAIN commands'
                  /\ commands'[t.command].status # "pending"
                  /\ commands'[t.command].claimedBy = t.agent
  <2>1. CASE t \in Claims
    BY <2>1, CommandKept DEF StoreCall, ClaimsOK
  <2>2. CASE NewClaim(t)
    BY <2>2 DEF NewClaim
  <2> QED
    BY <1>1, <2>1, <2>2
<1>2. ASSUME NEW s \in Claims', NEW t \in Claims', s.command = t.command, s.epoch = t.epoch
      PROVE  s.agent = t.agent
  <2>1. CASE t.epoch = epoch
    BY <1>1, <1>2, <2>1
  <2>2. CASE t.epoch # epoch
    BY <1>2, <2>2 DEF NewClaim, ClaimsOK
  <2> QED
    BY <2>1, <2>2
<1> QED
  BY <1>1, <1>2 DEF ClaimsOK

LEMMA MovesKeeps ==
  ASSUME ApiInv, NEW k \in Client, NEW r, StoreCall, epoch' = epoch, Moves(k, r)
  PROVE  /\ conn' = [j \in Client |-> conn'[j]]
         /\ \A j \in UnderWay' : RequestOK(conn'[j], commands')
         /\ ClaimsOK' /\ AnswersTrue' /\ DumpKeepsReports'
<1> USE DEF ApiInv
<1>1. conn' = [conn EXCEPT ![k] = r]
  BY DEF Moves, Sets
<1>2. /\ conn' = [j \in Client |-> conn'[j]] /\ conn'[k] = r
      /\ \A j \in Client : j # k => conn'[j] = conn[j]
  BY <1>1
<1>3. ASSUME NEW j \in UnderWay' PROVE RequestOK(conn'[j], commands')
  <2>1. CASE j = k
    BY <1>2, <2>1 DEF Moves
  <2>2. CASE j # k
    <3>1. j \in UnderWay /\ conn'[j] = conn[j]
      BY <1>2, <1>3, <2>2 DEF UnderWay
    <3>2. RequestOK(conn[j], commands')
      BY <3>1, RequestKept
    <3> QED
      BY <3>1, <3>2
  <2> QED
    BY <2>1, <2>2
<1>4. ASSUME NEW t \in Claims' PROVE t \in Claims \/ NewClaim(t)
  <2>1. CASE t \in told'
    BY <2>1 DEF Moves, Claims
  <2>2. ASSUME NEW j \in UnderWay', conn'[j].endpoint = "claim", t = ClaimOf(conn'[j])
        PROVE  t \in Claims \/ NewClaim(t)
    <3>1. CASE j = k
      BY <1>2, <2>2, <3>1 DEF Moves
    <3>2. CASE j # k
      BY <1>2, <2>2, <3>2 DEF Claims, UnderWay
    <3> QED
      BY <3>1, <3>2
  <2> QED
    BY <1>4, <2>1, <2>2 DEF Claims
<1>5. ClaimsOK'
  BY <1>4, ClaimsKept
<1>6. AnswersTrue' /\ DumpKeepsReports'
  BY DEF Moves, Sets, NoAnswer, AnswersTrue, DumpKeepsReports
<1> QED
  BY <1>2, <1>3, <1>5, <1>6

LEMMA EndsKeeps ==
  ASSUME ApiInv, NEW k \in Client, StoreCall, epoch' = epoch, Ends(k)
  PROVE  /\ conn' = [j \in Client |-> conn'[j]]
         /\ \A j \in UnderWay' : RequestOK(conn'[j], commands')
         /\ ClaimsOK' /\ AnswersTrue' /\ DumpKeepsReports'
<1> USE DEF ApiInv
<1>1. conn' = [conn EXCEPT ![k] = Idle]
  BY DEF Ends
<1>2. /\ conn' = [j \in Client |-> conn'[j]] /\ conn'[k] = Idle
      /\ \A j \in Client : j # k => conn'[j] = conn[j]
  BY <1>1
<1>3. \A j \in UnderWay' : j \in UnderWay /\ conn'[j] = conn[j]
  BY <1>2 DEF UnderWay
<1>4. \A j \in UnderWay' : RequestOK(conn'[j], commands')
  BY <1>3, RequestKept
<1>5. \A t \in Claims' : t \in Claims
  BY <1>3 DEF Ends, Claims
<1>6. ClaimsOK'
  BY <1>5, ClaimsKept
<1> QED
  BY <1>2, <1>4, <1>6 DEF Ends

LEMMA ServesKeeps ==
  ASSUME ApiInv, NEW k \in Client, Serves(k)
  PROVE  ApiInv'
<1>1. TypeOK' /\ OneReportPerCommand'
  BY StoreKept DEF ApiInv, Serves
<1>2. /\ conn' = [j \in Client |-> conn'[j]]
      /\ \A j \in UnderWay' : RequestOK(conn'[j], commands')
      /\ ClaimsOK' /\ AnswersTrue' /\ DumpKeepsReports'
  BY MovesKeeps, EndsKeeps DEF Serves
<1> QED
  BY <1>1, <1>2 DEF ApiInv, Serves

LEMMA IdleKeeps ==
  ASSUME ApiInv, UNCHANGED apiVars
  PROVE  ApiInv'
<1>1. StoreCall /\ UNCHANGED <<registered, conn, answer, epoch, told>>
  BY DEF StoreCall, apiVars
<1>2. TypeOK' /\ OneReportPerCommand'
  BY <1>1, StoreKept DEF ApiInv
<1>3. commands' = commands
  BY DEF apiVars, vars
<1> QED
  BY <1>1, <1>2, <1>3
     DEF ApiInv, UnderWay, ClaimsOK, Claims, AnswersTrue, DumpKeepsReports, ShownAs

\* The requests under way and the claims that were accepted survive the commands.
LEMMA ResetKeeps ==
  ASSUME ApiInv, NEW k \in Client, ServeReset(k)
  PROVE  ApiInv'
<1> USE DEF ApiInv
<1>1. /\ Reset /\ registered' = {} /\ epoch' = epoch + 1 /\ told' = told
      /\ conn' = [j \in Client |-> Frozen(conn[j])]
      /\ answer' = [code |-> 200,
                    request |-> [Request("reset", NoAgent, NoID, NoID) EXCEPT !.pc = "done"]]
  BY DEF ServeReset
<1>2. TypeOK' /\ OneReportPerCommand'
  BY <1>1, TypeStep, OneReportStep DEF Next
<1>3. \A j \in Client : conn'[j] = Frozen(conn[j])
  BY <1>1
<1>4. \A j \in UnderWay' : j \in UnderWay
  <2>1. Frozen(Idle) = Idle
    BY DEF Frozen, Idle
  <2> QED
    BY <1>3, <2>1 DEF UnderWay
<1>5. \A j \in UnderWay' : RequestOK(conn'[j], commands') /\ ClaimOf(conn'[j]) = ClaimOf(conn[j])
        /\ conn'[j].endpoint = conn[j].endpoint
  BY <1>3, <1>4, FrozenOK DEF UnderWay, ClaimOf
<1>6. \A t \in Claims' : t \in Claims
  BY <1>1, <1>4, <1>5 DEF Claims
<1>7. ClaimsOK'
  BY <1>1, <1>6 DEF ClaimsOK
<1>8. AnswersTrue' /\ DumpKeepsReports'
  <2> DEFINE r == Request("reset", NoAgent, NoID, NoID)
             q == [r EXCEPT !.pc = "done"]
  <2>1. r.endpoint = "reset" /\ r.reports = << >> /\ IsRequest(r)
    BY RequestFields
  <2>2. q = Made(r, "done", r.agent, r.held, r.shown, r.reports)
    BY <2>1, Making DEF WithPc
  <2>3. q.endpoint = "reset" /\ q.reports = << >>
    BY <2>1, <2>2, MadeIsRequest
  <2> HIDE DEF q, r
  <2>4. answer'.request = q
    BY <1>1 DEF q, r
  <2> QED
    BY <2>3, <2>4 DEF AnswersTrue, DumpKeepsReports
<1> QED
  BY <1>1, <1>2, <1>5, <1>7, <1>8

-----------------------------------------------------------------------------
(***************************************************************************)
(* The handlers.                                                           *)
(***************************************************************************)
\* What the handlers make of the requests they proceed with.
LEMMA Proceeding ==
  ASSUME NEW k, NEW r, IsRequest(r), NEW pc, NEW v
  PROVE  /\ Proceed(k, pc, r) => Sets(k, Made(r, pc, r.agent, r.held, r.shown, r.reports))
         /\ Proceed(k, pc, WithAgent(r, v)) =>
              Sets(k, Made(r, pc, v, r.held, r.shown, r.reports))
         /\ Proceed(k, pc, WithShown(r, v)) =>
              Sets(k, Made(r, pc, r.agent, r.held, v, r.reports))
         /\ Proceed(k, pc, WithReports(r, v)) =>
              Sets(k, Made(r, pc, r.agent, r.held, r.shown, v))
         /\ AnswerFrom(k, r, v) =>
              Sets(k, Made(r, "encode", r.agent, v, r.shown, r.reports))
<1>1. \A q : Proceed(k, pc, q) => Sets(k, WithPc(q, pc))
  BY Zenon DEF Proceed, WithPc, Sets
<1>2. AnswerFrom(k, r, v) => Sets(k, WithPc(WithHeld(r, v), "encode"))
  BY Zenon DEF AnswerFrom, Proceed, WithPc, WithHeld, Sets
<1> QED
  BY <1>1, <1>2, Making

LEMMA ToldWereClaims == told \subseteq Claims
BY DEF Claims

LEMMA RefuseServes ==
  ASSUME ApiInv, NEW k \in Client, NEW endpoint, Refuse(k, endpoint)
  PROVE  Serves(k)
<1> DEFINE r == Request(endpoint, NoAgent, NoID, NoID)
<1>1. UNCHANGED vars /\ registered' = registered /\ epoch' = epoch /\ told' = told
  BY DEF Refuse, context
<1>2. PICK code \in {400, 401} : Answer(k, r, code)
  BY DEF Refuse
<1>3. IsRequest(r)
  BY RequestFields
<1>4. Ends(k)
  BY <1>1, <1>2, <1>3, Ending, ToldWereClaims
<1> QED
  BY <1>1, <1>4 DEF Serves, StoreCall, ApiInv

LEMMA RegisterServes ==
  ASSUME ApiInv, NEW k \in Client, NEW a \in Agent, Register(k, a)
  PROVE  Serves(k)
<1> DEFINE r == Request("register", a, NoID, NoID)
<1>1. /\ UNCHANGED vars /\ registered' = registered \cup {a} /\ epoch' = epoch /\ told' = told
      /\ Answer(k, r, 200)
  BY DEF Register
<1>2. IsRequest(r) /\ Fine(r)
  BY RequestFields, PlainIsFine
<1>3. Ends(k)
  BY <1>1, <1>2, Ending, ToldWereClaims
<1> QED
  BY <1>1, <1>3 DEF Serves, StoreCall, ApiInv

\* Claim and start: the command is as its caller wants it by the end of the critical section.
LEMMA HeldServes ==
  ASSUME ApiInv, NEW k \in Client, NEW endpoint \in {"claim", "start"}, NEW a \in Agent,
         NEW c, StoreCall, UNCHANGED context,
         AnswerFrom(k, Request(endpoint, a, c, NoID), {c}),
         c \in DOMAIN commands', commands'[c].claimedBy = a,
         IF endpoint = "claim" THEN commands'[c].status = "claimed"
                               ELSE commands'[c].status \in Begun
  PROVE  Serves(k)
<1> DEFINE r == Request(endpoint, a, c, NoID)
           q == Made(r, "encode", r.agent, {c}, r.shown, r.reports)
<1>1. /\ IsRequest(r) /\ r.endpoint = endpoint /\ r.agent = a /\ r.command = c
      /\ r.since = epoch /\ r.shown = EmptyMap /\ r.reports = << >>
  BY RequestFields
<1>2. Sets(k, q)
  BY <1>1, Proceeding
<1>3. /\ IsRequest(q) /\ q.pc = "encode" /\ q.endpoint = endpoint /\ q.agent = a
      /\ q.command = c /\ q.since = epoch /\ q.held = {c} /\ q.shown = EmptyMap
      /\ q.reports = << >>
  BY <1>1, MadeIsRequest
<1> HIDE DEF q
<1>4. Relied(q, c, commands'[c])
  BY <1>3 DEF Relied
<1>5. RequestOK(q, commands')
  BY <1>3, <1>4 DEF RequestOK, ReportsIn, EmptyMap
<1>6. NewClaim(ClaimOf(q)) \/ endpoint = "start"
  BY <1>3 DEF NewClaim, ClaimOf
<1>7. Moves(k, q)
  BY <1>2, <1>3, <1>5, <1>6 DEF Moves, context
<1> QED
  BY <1>7 DEF Serves, ApiInv, context

LEMMA FailsServes ==
  ASSUME ApiInv, NEW k \in Client, NEW r, IsRequest(r), NEW accepted, Fails(k, r, accepted),
         UNCHANGED context
  PROVE  Serves(k)
<1>1. UNCHANGED vars /\ registered' = registered /\ epoch' = epoch /\ told' = told
  BY DEF Fails, context
<1>2. PICK code \in {404, 409} : Answer(k, r, code)
  BY DEF Fails
<1>3. Ends(k)
  BY <1>1, <1>2, Ending, ToldWereClaims
<1> QED
  BY <1>1, <1>3 DEF Serves, StoreCall, ApiInv

LEMMA ClaimServes ==
  ASSUME ApiInv, NEW k \in Client, NEW a \in Agent, NEW c, Claim(k, a, c)
  PROVE  Serves(k)
<1> DEFINE r == Request("claim", a, c, NoID)
<1>1. UNCHANGED context /\ IsRequest(r)
  BY RequestFields DEF Claim
<1>2. CASE c \in DOMAIN commands /\ ClaimCommand(c, a) /\ AnswerFrom(k, r, {c})
  <2>1. StoreCall
    BY <1>2 DEF StoreCall, Call
  <2>2. c \in DOMAIN commands' /\ commands'[c].claimedBy = a /\ commands'[c].status = "claimed"
    <3>1. commands[c] \in Command
      BY <1>2 DEF ApiInv, TypeOK
    <3> QED
      BY <1>2, <3>1 DEF ClaimCommand, Command
  <2> QED
    BY <1>1, <1>2, <2>1, <2>2, HeldServes
<1>3. CASE ClaimedAlready(c, a) /\ UNCHANGED vars /\ AnswerFrom(k, r, {c})
  <2>1. c \in DOMAIN commands' /\ commands'[c].claimedBy = a /\ commands'[c].status = "claimed"
    BY <1>3 DEF ClaimedAlready, vars
  <2> QED
    BY <1>1, <1>3, <2>1, HeldServes DEF StoreCall
<1>4. CASE Fails(k, r, Claimable(c, a) \/ ClaimedAlready(c, a))
  BY <1>1, <1>4, FailsServes
<1> QED
  BY <1>2, <1>3, <1>4 DEF Claim

LEMMA StartServes ==
  ASSUME ApiInv, NEW k \in Client, NEW a \in Agent, NEW c, Start(k, a, c)
  PROVE  Serves(k)
<1> DEFINE r == Request("start", a, c, NoID)
<1>1. UNCHANGED context /\ IsRequest(r)
  BY RequestFields DEF Start
<1>2. CASE c \in DOMAIN commands /\ StartCommand(c, a) /\ AnswerFrom(k, r, {c})
  <2>1. StoreCall
    BY <1>2 DEF StoreCall, Call
  <2>2. c \in DOMAIN commands' /\ commands'[c].claimedBy = a /\ commands'[c].status = "running"
    <3>1. commands[c] \in Command
      BY <1>2 DEF ApiInv, TypeOK
    <3> QED
      BY <1>2, <3>1 DEF StartCommand, Startable, Command
  <2> QED
    BY <1>1, <1>2, <2>1, <2>2, HeldServes DEF Begun
<1>3. CASE StartedAlready(c, a) /\ UNCHANGED vars /\ AnswerFrom(k, r, {c})
  <2>1. c \in DOMAIN commands' /\ commands'[c].claimedBy = a /\ commands'[c].status = "running"
    BY <1>3 DEF StartedAlready, vars
  <2> QED
    BY <1>1, <1>3, <2>1, HeldServes DEF StoreCall, Begun
<1>4. CASE Fails(k, r, Startable(c, a) \/ StartedAlready(c, a))
  BY <1>1, <1>4, FailsServes
<1> QED
  BY <1>2, <1>3, <1>4 DEF Start

LEMMA ReportServes ==
  ASSUME ApiInv, NEW k \in Client, NEW a \in Agent, NEW c, NEW dIn \in 0..MaxDeployment,
         NEW st, NEW u \in Upstream, Report(k, a, c, dIn, st, u)
  PROVE  Serves(k)
<1> DEFINE r == Request("report", a, c, dIn)
<1>1. UNCHANGED context /\ IsRequest(r) /\ Fine(r)
  BY RequestFields, PlainIsFine DEF Report
<1>2. CASE c \in DOMAIN commands /\ ReportCommand(c, dIn, st, u) /\ Answer(k, r, 200)
  <2>1. st \in FinalStatus
    BY <1>2 DEF ReportCommand, FinalStatus
  <2>2. StoreCall
    BY <1>2, <2>1 DEF StoreCall, Call
  <2>3. Ends(k)
    BY <1>1, <1>2, Ending, ToldWereClaims DEF context
  <2> QED
    BY <1>1, <2>2, <2>3 DEF Serves, ApiInv, context
<1>3. CASE Fails(k, r, Reportable(c) /\ st \in FinalStatus)
  BY <1>1, <1>3, FailsServes
<1> QED
  BY <1>2, <1>3 DEF Report

\* A lookup that finds an agent to go on with.
LEMMA FoundServes ==
  ASSUME ApiInv, NEW k \in Client, NEW r, IsRequest(r), NEW a \in Agent,
         r.endpoint \in {"pending", "deploy"} \cup DOMAIN CommandOf,
         r.endpoint \in {"stop", "remove"} => r.deployment \in 1..MaxDeployment,
         r.endpoint = "cleanup" => r.deployment = NoID,
         r.held = {}, r.shown = EmptyMap, r.reports = << >>,
         Sets(k, Made(r, "found", a, r.held, r.shown, r.reports)), UNCHANGED <<vars, context>>
  PROVE  Serves(k)
<1> DEFINE q == Made(r, "found", a, r.held, r.shown, r.reports)
<1>1. /\ IsRequest(q) /\ q.pc = "found" /\ q.agent = a /\ q.endpoint = r.endpoint
      /\ q.deployment = r.deployment /\ q.held = {} /\ q.shown = EmptyMap
      /\ q.reports = << >>
  BY MadeIsRequest
<1> HIDE DEF q
<1>2. RequestOK(q, commands')
  BY <1>1 DEF RequestOK, FoundOK
<1>3. q.endpoint # "claim"
  BY <1>1 DEF CommandOf
<1>4. Moves(k, q)
  BY <1>2, <1>3 DEF Moves, context, q
<1> QED
  BY <1>4 DEF Serves, StoreCall, ApiInv, context

\* Answers that leave the store alone and are not of the kind 200.
LEMMA ErrorServes ==
  ASSUME ApiInv, NEW k \in Client, NEW r, IsRequest(r), Answer(k, r, 404),
         UNCHANGED <<vars, context>>
  PROVE  Serves(k)
<1>1. Ends(k)
  BY Ending, ToldWereClaims DEF context
<1> QED
  BY <1>1 DEF Serves, StoreCall, ApiInv, context

LEMMA LookupAgentServes ==
  ASSUME ApiInv, NEW k \in Client, NEW a \in Agent, LookupAgent(k, a)
  PROVE  Serves(k)
<1> DEFINE r == Request("pending", a, NoID, NoID)
<1>1. /\ IsRequest(r) /\ r.endpoint = "pending" /\ r.agent = a /\ r.held = {}
      /\ r.shown = EmptyMap /\ r.reports = << >>
  BY RequestFields
<1>2. CASE Proceed(k, "found", r)
  <2>1. Sets(k, Made(r, "found", a, r.held, r.shown, r.reports))
    BY <1>1, <1>2, Proceeding
  <2> HIDE DEF r
  <2> QED
    BY <1>1, <2>1, FoundServes DEF LookupAgent
<1>3. CASE Answer(k, r, 404)
  BY <1>1, <1>3, ErrorServes DEF LookupAgent
<1> QED
  BY <1>2, <1>3 DEF LookupAgent

LEMMA LookupTargetServes ==
  ASSUME ApiInv, NEW k \in Client, NEW endpoint \in {"deploy", "cleanup"}, NEW e,
         LookupTarget(k, endpoint, e)
  PROVE  Serves(k)
<1> DEFINE r == Request(endpoint, NoAgent, NoID, NoID)
<1>1. /\ IsRequest(r) /\ r.endpoint = endpoint /\ r.deployment = NoID /\ r.held = {}
      /\ r.shown = EmptyMap /\ r.reports = << >>
  BY RequestFields
<1>2. ASSUME NEW a \in registered, Proceed(k, "found", WithAgent(r, a)) PROVE Serves(k)
  <2>1. Sets(k, Made(r, "found", a, r.held, r.shown, r.reports)) /\ a \in Agent
    BY <1>1, <1>2, Proceeding DEF ApiInv
  <2> HIDE DEF r
  <2> QED
    BY <1>1, <2>1, FoundServes DEF LookupTarget, CommandOf
<1>3. CASE Answer(k, r, 404)
  BY <1>1, <1>3, ErrorServes DEF LookupTarget
<1>4. \/ \E a \in registered : Proceed(k, "found", WithAgent(r, a))
      \/ Answer(k, r, 404)
  BY Zenon DEF LookupTarget, WithAgent
<1> QED
  BY <1>2, <1>3, <1>4

LEMMA LookupDeploymentServes ==
  ASSUME ApiInv, NEW k \in Client, NEW endpoint \in {"stop", "remove"},
         NEW d \in 1..MaxDeployment, NEW a \in Agent \cup {NoAgent},
         LookupDeployment(k, endpoint, d, a)
  PROVE  Serves(k)
<1> DEFINE r == Request(endpoint, a, NoID, d)
<1>1. /\ IsRequest(r) /\ r.endpoint = endpoint /\ r.deployment = d /\ r.held = {}
      /\ r.agent = a /\ r.shown = EmptyMap /\ r.reports = << >>
  BY RequestFields
<1>2. CASE d \in DOMAIN deployments /\ Proceed(k, "found", WithAgent(r, deployments[d].target))
  <2>1. deployments[d].target \in Agent
    BY <1>2 DEF ApiInv, TypeOK, Deployment
  <2>2. Sets(k, Made(r, "found", deployments[d].target, r.held, r.shown, r.reports))
    BY <1>1, <1>2, Proceeding
  <2> HIDE DEF r
  <2> QED
    BY <1>1, <2>1, <2>2, FoundServes DEF LookupDeployment, CommandOf
<1>3. CASE a # NoAgent /\ Proceed(k, "found", r)
  <2>1. Sets(k, Made(r, "found", a, r.held, r.shown, r.reports)) /\ a \in Agent
    BY <1>1, <1>3, Proceeding
  <2> HIDE DEF r
  <2> QED
    BY <1>1, <2>1, FoundServes DEF LookupDeployment, CommandOf
<1>4. CASE Answer(k, r, 404)
  BY <1>1, <1>4, ErrorServes DEF LookupDeployment
<1>5. \/ d \in DOMAIN deployments /\ Proceed(k, "found", WithAgent(r, deployments[d].target))
      \/ a # NoAgent /\ Proceed(k, "found", r)
      \/ Answer(k, r, 404)
  BY Zenon DEF LookupDeployment, WithAgent
<1> QED
  BY <1>2, <1>3, <1>4, <1>5

\* A request at one of these stages is under way.
LEMMA BusyOK ==
  ASSUME ApiInv, NEW k \in Client, conn[k].pc \in {"found", "dump", "encode", "detached"}
  PROVE  k \in UnderWay /\ RequestOK(conn[k], commands) /\ IsRequest(conn[k])
<1>1. Idle.pc = "idle"
  BY DEF Idle
<1>2. k \in UnderWay
  BY <1>1 DEF UnderWay
<1> QED
  BY <1>2 DEF ApiInv, RequestOK

LEMMA ListPendingServes ==
  ASSUME ApiInv, NEW k \in Client, ListPending(k)
  PROVE  Serves(k)
<1> DEFINE r   == conn[k]
           ids == {c \in DOMAIN commands :
                     commands[c].target = r.agent /\ commands[c].status = "pending"}
           q   == Made(r, "encode", r.agent, ids, r.shown, r.reports)
<1>1. RequestOK(r, commands) /\ IsRequest(r) /\ r.pc = "found" /\ r.endpoint = "pending"
  BY BusyOK DEF ListPending
<1>2. r.reports = << >> /\ r.shown = EmptyMap
  BY <1>1 DEF RequestOK, FoundOK
<1>3. AnswerFrom(k, r, ids)
  BY DEF ListPending
<1>4. UNCHANGED <<vars, context>> /\ commands' = commands
  BY DEF ListPending, vars
<1>5. ids \subseteq DOMAIN commands /\ \A c \in ids : commands[c].target = r.agent
  OBVIOUS
<1> HIDE DEF ids, r
<1>6. Sets(k, q)
  BY <1>1, <1>3, Proceeding
<1>7. /\ IsRequest(q) /\ q.pc = "encode" /\ q.endpoint = "pending" /\ q.agent = r.agent
      /\ q.held = ids /\ q.shown = EmptyMap /\ q.reports = << >>
  BY <1>1, <1>2, MadeIsRequest
<1> HIDE DEF q
<1>8. RequestOK(q, commands')
  BY <1>4, <1>5, <1>7 DEF RequestOK, Relied, ReportsIn, EmptyMap
<1>9. Moves(k, q)
  BY <1>4, <1>6, <1>7, <1>8 DEF Moves, context
<1> QED
  BY <1>4, <1>9 DEF Serves, StoreCall, ApiInv, context

\* Testers' requests show commands without relying on anything but the reports.
LEMMA ListCommandsServes ==
  ASSUME ApiInv, NEW k \in Client, NEW status, ListCommands(k, status)
  PROVE  Serves(k)
<1> DEFINE r   == Request("commands", NoAgent, NoID, NoID)
           ids == {c \in DOMAIN commands : commands[c].status \in status}
           q   == Made(r, "encode", r.agent, ids, r.shown, r.reports)
<1>1. /\ IsRequest(r) /\ r.endpoint = "commands" /\ r.shown = EmptyMap
      /\ r.reports = << >>
  BY RequestFields
<1>2. AnswerFrom(k, r, ids) /\ UNCHANGED <<vars, context>> /\ commands' = commands
  BY DEF ListCommands, vars
<1>3. ids \subseteq DOMAIN commands
  OBVIOUS
<1> HIDE DEF ids, r
<1>4. Sets(k, q)
  BY <1>1, <1>2, Proceeding
<1>5. /\ IsRequest(q) /\ q.pc = "encode" /\ q.endpoint = "commands"
      /\ q.held = ids /\ q.shown = EmptyMap /\ q.reports = << >>
  BY <1>1, MadeIsRequest
<1> HIDE DEF q
<1>6. RequestOK(q, commands')
  BY <1>2, <1>3, <1>5 DEF RequestOK, Relied, ReportsIn, EmptyMap
<1>7. Moves(k, q)
  BY <1>2, <1>4, <1>5, <1>6 DEF Moves, context
<1> QED
  BY <1>2, <1>7 DEF Serves, StoreCall, ApiInv, context

LEMMA DebugServes ==
  ASSUME ApiInv, NEW k \in Client, Debug(k)
  PROVE  Serves(k)
<1> DEFINE r == Request("debug", NoAgent, NoID, NoID)
           q == Made(r, "dump", r.agent, r.held, r.shown, commandReports)
<1>1. /\ IsRequest(r) /\ r.endpoint = "debug" /\ r.held = {} /\ r.shown = EmptyMap
  BY RequestFields
<1>2. Proceed(k, "dump", WithReports(r, commandReports))
  BY Zenon DEF Debug, WithReports
<1>3. UNCHANGED <<vars, context>> /\ commands' = commands
  BY DEF Debug, vars
<1> HIDE DEF r
<1>4. Sets(k, q)
  BY <1>1, <1>2, Proceeding
<1>5. /\ IsRequest(q) /\ q.pc = "dump" /\ q.endpoint = "debug"
      /\ q.shown = EmptyMap /\ q.reports = commandReports
  BY <1>1, MadeIsRequest
<1> HIDE DEF q
<1>6. \A i \in DOMAIN commandReports :
        /\ commandReports[i].status \in FinalStatus
        /\ commandReports[i].command \in DOMAIN commands
        /\ commands[commandReports[i].command].status = commandReports[i].status
  BY ReportStatus DEF ApiInv, OneReportPerCommand
<1>7. RequestOK(q, commands')
  BY <1>3, <1>5, <1>6 DEF RequestOK, Relied, ReportsIn
<1>8. Moves(k, q)
  BY <1>3, <1>4, <1>5, <1>7 DEF Moves, context
<1> QED
  BY <1>3, <1>8 DEF Serves, StoreCall, ApiInv, context

LEMMA IterateServes ==
  ASSUME ApiInv, NEW k \in Client, Iterate(k)
  PROVE  Serves(k)
<1> DEFINE r   == conn[k]
           ids == DOMAIN commands
           q   == Made(r, "encode", r.agent, ids, r.shown, r.reports)
<1>1. RequestOK(r, commands) /\ IsRequest(r) /\ r.pc = "dump"
  BY BusyOK DEF Iterate
<1>2. AnswerFrom(k, r, ids) /\ UNCHANGED <<vars, context>> /\ commands' = commands
  BY DEF Iterate, vars
<1> HIDE DEF r
<1>3. Sets(k, q)
  BY <1>1, <1>2, Proceeding
<1>4. /\ IsRequest(q) /\ q.pc = "encode" /\ q.endpoint = r.endpoint /\ q.agent = r.agent
      /\ q.held = ids /\ q.shown = r.shown /\ q.reports = r.reports
  BY <1>1, MadeIsRequest
<1> HIDE DEF q
<1>5. /\ r.endpoint = "debug" /\ r.shown = EmptyMap /\ ReportsIn(r, ids)
      /\ \A c \in ids : Relied(r, c, commands[c])
      /\ \A i \in DOMAIN r.reports : r.reports[i].status \in FinalStatus
  BY <1>1 DEF RequestOK
<1>6. RequestOK(q, commands')
  BY <1>2, <1>4, <1>5 DEF RequestOK, Relied, ReportsIn, EmptyMap
<1>7. Moves(k, q)
  BY <1>2, <1>3, <1>4, <1>5, <1>6 DEF Moves, context
<1> QED
  BY <1>2, <1>7 DEF Serves, StoreCall, ApiInv, context

LEMMA EncodeServes ==
  ASSUME ApiInv, NEW k \in Client, NEW c, Encode(k, c)
  PROVE  Serves(k)
<1> DEFINE r    == conn[k]
           more == Put(r.shown, c, commands[c])
           q    == Made(r, "encode", r.agent, r.held, more, r.reports)
<1>1. /\ k \in UnderWay /\ RequestOK(r, commands) /\ IsRequest(r) /\ r.pc = "encode"
      /\ c \in r.held
  BY BusyOK DEF Encode
<1>2. UNCHANGED <<vars, context>> /\ commands' = commands
  BY DEF Encode, vars
<1>3. Proceed(k, "encode", WithShown(r, more))
  BY Zenon DEF Encode, WithShown
<1>4. r.endpoint = "claim" => ClaimOf(r) \in Claims
  BY <1>1 DEF Claims
<1> HIDE DEF r
<1>5. RequestOK(q, commands')
  BY <1>1, <1>2, ReadOK
<1> HIDE DEF more
<1>6. Sets(k, q)
  BY <1>1, <1>3, Proceeding
<1>7. /\ q.endpoint = r.endpoint /\ q.command = r.command /\ q.agent = r.agent
      /\ q.since = r.since
  BY MadeIsRequest
<1> HIDE DEF q
<1>8. Moves(k, q)
  BY <1>2, <1>4, <1>5, <1>6, <1>7 DEF Moves, ClaimOf, context
<1> QED
  BY <1>2, <1>8 DEF Serves, StoreCall, ApiInv, context

\* What was shown, one command after the other, is as good an answer as any.
LEMMA CompleteIsFine ==
  ASSUME NEW r, RequestOK(r, commands), Complete(r)
  PROVE  Fine(r)
<1>1. r.pc \in {"encode", "detached"} /\ DOMAIN r.shown = r.held
  BY DEF RequestOK, Complete
<1>2. /\ ReportsIn(r, DOMAIN r.shown)
      /\ r.endpoint \in {"claim", "start"} => DOMAIN r.shown = {r.command}
      /\ \A c \in DOMAIN r.shown : Relied(r, c, r.shown[c])
  BY <1>1 DEF RequestOK
<1> HIDE DEF RequestOK
<1> QED
  BY <1>2 DEF Fine, ShownAs, Relied, ReportsIn, Begun

LEMMA SendServes ==
  ASSUME ApiInv, NEW k \in Client, Send(k)
  PROVE  Serves(k)
<1> DEFINE r == conn[k]
<1>1. Complete(r) /\ r.pc \in {"encode", "detached"}
  BY DEF Send, Complete
<1>2. k \in UnderWay /\ RequestOK(r, commands) /\ IsRequest(r)
  BY <1>1, BusyOK
<1>3. Fine(r)
  BY <1>1, <1>2, CompleteIsFine
<1>4. told' \subseteq Claims
  <2>1. r.endpoint = "claim" => ClaimOf(r) \in Claims
    BY <1>2 DEF Claims
  <2> QED
    BY <2>1, ToldWereClaims DEF Send, ClaimOf
<1>5. Answer(k, r, 200)
  BY DEF Send
<1> HIDE DEF r
<1>6. Ends(k)
  BY <1>2, <1>3, <1>4, <1>5, Ending
<1> QED
  BY <1>6 DEF Serves, StoreCall, ApiInv, Send

\* The answers of the handlers that create carry a request with its new IDs.
LEMMA CreatedServes ==
  ASSUME ApiInv, NEW k \in Client, NEW r, IsRequest(r), r.reports = << >>,
         r.endpoint \notin {"claim", "start", "pending"},
         StoreCall, UNCHANGED context, Answer(k, r, 200)
  PROVE  Serves(k)
<1>1. Ends(k)
  BY PlainIsFine, Ending, ToldWereClaims DEF context
<1> QED
  BY <1>1 DEF Serves, ApiInv, context

WithCommand(r, c)    == [r EXCEPT !.command = c]
WithDeployment(r, d) == [r EXCEPT !.deployment = d]

LEMMA Numbering ==
  ASSUME NEW r, IsRequest(r), NEW c, NEW d
  PROVE  /\ IsRequest(WithCommand(r, c))
         /\ WithCommand(r, c).endpoint = r.endpoint /\ WithCommand(r, c).reports = r.reports
         /\ IsRequest(WithDeployment(r, d))
         /\ WithDeployment(r, d).endpoint = r.endpoint
         /\ WithDeployment(r, d).reports = r.reports
BY DEF IsRequest, WithCommand, WithDeployment

LEMMA DeployServes ==
  ASSUME ApiInv, NEW k \in Client, NEW form \in DeployForm, Deploy(k, form)
  PROVE  Serves(k)
<1> DEFINE r == conn[k]
           q == WithDeployment(WithCommand(r, NextCommand), NextDeployment)
<1>1. /\ RequestOK(r, commands) /\ IsRequest(r) /\ r.pc = "found" /\ r.endpoint = "deploy"
      /\ UNCHANGED context
  BY BusyOK DEF Deploy
<1>2. r.agent \in Agent /\ r.reports = << >>
  BY <1>1 DEF RequestOK, FoundOK
<1>3. StoreCall
  <2>1. /\ AgentEnv[r.agent] \in Env
        /\ form[1] \in Host \cup {NoHost} /\ form[2] \in BOOLEAN
    BY <1>2, ApiAssumption
  <2>2. InitDeploy(AgentEnv[r.agent], form[1], form[2], r.agent)
    BY DEF Deploy
  <2> HIDE DEF r
  <2>3. \E e \in Env, h \in Host \cup {NoHost}, rr \in BOOLEAN, a \in Agent : InitDeploy(e, h, rr, a)
    BY <1>2, <2>1, <2>2
  <2> QED
    BY <2>3 DEF StoreCall, Call
<1>4. Answer(k, q, 200)
  BY Zenon DEF Deploy, WithCommand, WithDeployment
<1> HIDE DEF r
<1>5. IsRequest(q) /\ q.endpoint = "deploy" /\ q.reports = << >>
  BY <1>1, <1>2, Numbering
<1> HIDE DEF q
<1> QED
  BY <1>1, <1>3, <1>4, <1>5, CreatedServes

LEMMA CreateServes ==
  ASSUME ApiInv, NEW k \in Client, Create(k)
  PROVE  Serves(k)
<1> DEFINE r == conn[k]
           q == WithCommand(r, NextCommand)
<1>1. /\ RequestOK(r, commands) /\ IsRequest(r) /\ r.pc = "found"
      /\ r.endpoint \in DOMAIN CommandOf /\ UNCHANGED context
  BY BusyOK DEF Create
<1>2. /\ r.agent \in Agent /\ r.reports = << >>
      /\ r.endpoint \in {"stop", "remove"} => r.deployment \in 1..MaxDeployment
      /\ r.endpoint = "cleanup" => r.deployment = NoID
  BY <1>1 DEF RequestOK, FoundOK
<1>3. /\ DOMAIN CommandOf = {"stop", "remove", "cleanup"}
      /\ CommandOf["stop"] = StopType /\ CommandOf["remove"] = RemoveType
      /\ CommandOf["cleanup"] = CleanupType
  BY DEF CommandOf
<1>4. CreateCommand(CommandOf[r.endpoint], r.deployment, r.agent)
  BY DEF Create
<1>5. Answer(k, q, 200)
  BY Zenon DEF Create, WithCommand
<1> HIDE DEF r
<1>6. StoreCall
  BY <1>1, <1>2, <1>3, <1>4 DEF StoreCall, Call
<1>7. IsRequest(q) /\ q.endpoint = r.endpoint /\ q.reports = << >>
  BY <1>1, <1>2, Numbering
<1> HIDE DEF q
<1> QED
  BY <1>1, <1>3, <1>5, <1>6, <1>7, CreatedServes

-----------------------------------------------------------------------------
(***************************************************************************)
(* The HTTP side.                                                          *)
(***************************************************************************)
LEMMA HandleServes ==
  ASSUME ApiInv, NEW k \in Client, Handle(k)
  PROVE  Serves(k) \/ ServeReset(k)
<1>1. ASSUME NEW endpoint, Refuse(k, endpoint) PROVE Serves(k)
  BY <1>1, RefuseServes
<1>2. ASSUME NEW a \in Agent, Register(k, a) \/ LookupAgent(k, a) PROVE Serves(k)
  BY <1>2, RegisterServes, LookupAgentServes
<1>3. ASSUME NEW a \in Agent, NEW c, Claim(k, a, c) \/ Start(k, a, c) PROVE Serves(k)
  BY <1>3, ClaimServes, StartServes
<1>4. ASSUME NEW a \in Agent, NEW c, NEW dIn \in 0..MaxDeployment, NEW st, NEW u \in Upstream,
             Report(k, a, c, dIn, st, u)
      PROVE  Serves(k)
  BY <1>4, ReportServes
<1>5. ASSUME NEW endpoint \in {"deploy", "cleanup"}, NEW e, LookupTarget(k, endpoint, e)
      PROVE  Serves(k)
  BY <1>5, LookupTargetServes
<1>6. ASSUME NEW endpoint \in {"stop", "remove"}, NEW d \in 1..MaxDeployment,
             NEW a \in Agent \cup {NoAgent}, LookupDeployment(k, endpoint, d, a)
      PROVE  Serves(k)
  BY <1>6, LookupDeploymentServes
<1>7. ASSUME NEW form \in DeployForm, Deploy(k, form) PROVE Serves(k)
  BY <1>7, DeployServes
<1>8. ASSUME NEW status, ListCommands(k, status) PROVE Serves(k)
  BY <1>8, ListCommandsServes
<1>9. ASSUME NEW c, Encode(k, c) PROVE Serves(k)
  BY <1>9, EncodeServes
<1>10. ListPending(k) \/ Create(k) \/ Debug(k) \/ Iterate(k) \/ Send(k) => Serves(k)
  BY ListPendingServes, CreateServes, DebugServes, IterateServes, SendServes
<1> QED
  BY <1>1, <1>2, <1>3, <1>4, <1>5, <1>6, <1>7, <1>8, <1>9, <1>10 DEF Handle

LEMMA InitApi == ApiInit => ApiInv
<1> SUFFICES ASSUME ApiInit PROVE ApiInv
  OBVIOUS
<1>1. TypeOK
  BY InitTypeOK DEF ApiInit
<1>2. OneReportPerCommand
  BY DEF ApiInit, Init, EmptyMap, OneReportPerCommand
<1>3. /\ registered = {} /\ epoch = 0 /\ told = {} /\ answer.code = 0
      /\ conn = [k \in Client |-> Idle]
  BY DEF ApiInit, NoAnswer
<1>4. UnderWay = {} /\ Claims = {}
  BY <1>3 DEF UnderWay, Claims
<1> QED
  BY <1>1, <1>2, <1>3, <1>4 DEF ApiInv, ClaimsOK, AnswersTrue, DumpKeepsReports

LEMMA ApiStep == ApiInv /\ [ApiNext]_apiVars => ApiInv' /\ [Next]_vars
<1> SUFFICES ASSUME ApiInv, [ApiNext]_apiVars PROVE ApiInv' /\ [Next]_vars
  OBVIOUS
<1>1. ASSUME NEW k \in Client, Handle(k) PROVE ApiInv' /\ [Next]_vars
  <2>1. CASE Serves(k)
    BY <2>1, ServesKeeps DEF Serves, StoreCall, Next
  <2>2. CASE ServeReset(k)
    BY <2>2, ResetKeeps DEF ServeReset, Next
  <2> QED
    BY <1>1, <2>1, <2>2, HandleServes
<1>2. CASE UNCHANGED apiVars
  BY <1>2, IdleKeeps DEF apiVars
<1> QED
  BY <1>1, <1>2 DEF ApiNext

LEMMA ApiInvariant == ApiSpec => []ApiInv
<1> QED
  BY InitApi, ApiStep, PTL DEF ApiSpec

\* The handlers use the store as it is meant to be used: whatever the requests, in the order
\* their critical sections run, every step is one call of the store or none.  All that is
\* proved of Spec therefore holds behind the HTTP side.
THEOREM ApiImplementsStore == ApiSpec => Spec
<1>1. ApiInit => Init
  BY DEF ApiInit
<1> QED
  BY <1>1, ApiStep, ApiInvariant, PTL DEF ApiSpec, Spec

\* Of two claims of a command that are answered 200 between two resets both are the same
\* agent's (ClaimCommand, handleClaimCommand).
THEOREM ClaimsAreExclusive == ApiSpec => []OneHolder
<1>1. ApiInv => OneHolder
  BY DEF ApiInv, ClaimsOK, Claims, OneHolder
<1> QED
  BY <1>1, ApiInvariant, PTL

\* An answer that is written from live commands after the lock was released still says what
\* its caller relies on (handleClaimCommand, handleStartCommand, handleListPendingCommands).
THEOREM AnswersAreTrue == ApiSpec => []AnswersTrue
<1>1. ApiInv => AnswersTrue
  BY DEF ApiInv
<1> QED
  BY <1>1, ApiInvariant, PTL

\* The debug dump shows the commands its reports are about as they were reported, also when
\* the store is reset while it is written (Debug, Reset).
THEOREM DumpsKeepReports == ApiSpec => []DumpKeepsReports
<1>1. ApiInv => DumpKeepsReports
  BY DEF ApiInv
<1> QED
  BY <1>1, ApiInvariant, PTL

=============================================================================
