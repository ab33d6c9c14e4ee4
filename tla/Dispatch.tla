------------------------------ MODULE Dispatch ------------------------------
(***************************************************************************)
(* What the store promises about commands, and no more: a command is       *)
(* issued to one agent, is taken by that agent, and after that has exactly *)
(* one result; results are kept in the order they came in.  A reset        *)
(* forgets everything, the IDs that were issued too.                       *)
(***************************************************************************)
EXTENDS Integers, Sequences

CONSTANTS
  Agent,  \* who commands are issued to
  ID      \* what commands are called

VARIABLES
  target,   \* the agent each issued command is for
  taken,    \* the commands their agents have taken
  results   \* the commands that have ended, with how, in order

vars == <<target, taken, results>>

Result == [command : ID, status : {"succeeded", "failed"}]

Init ==
  /\ target = [c \in {} |-> c]
  /\ taken = {}
  /\ results = << >>

Issue(c, a) ==
  /\ c \notin DOMAIN target
  /\ target' = [x \in DOMAIN target \cup {c} |-> IF x = c THEN a ELSE target[x]]
  /\ UNCHANGED <<taken, results>>

Take(c) ==
  /\ c \in DOMAIN target \ taken
  /\ taken' = taken \cup {c}
  /\ UNCHANGED <<target, results>>

HasResult(c) == \E i \in DOMAIN results : results[i].command = c

Finish(r) ==
  /\ r.command \in taken
  /\ ~HasResult(r.command)
  /\ results' = Append(results, r)
  /\ UNCHANGED <<target, taken>>

Forget ==
  /\ target' = [c \in {} |-> c]
  /\ taken' = {}
  /\ results' = << >>

Next ==
  \/ \E c \in ID, a \in Agent : Issue(c, a)
  \/ \E c \in DOMAIN target : Take(c)
  \/ \E r \in Result : Finish(r)
  \/ Forget

Spec == Init /\ [][Next]_vars

=============================================================================
