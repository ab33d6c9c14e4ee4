------------------------------ MODULE Routing ------------------------------
(***************************************************************************)
(* What the store promises about routes, and no more: an environment has a *)
(* table from hosts to targets and a version that moves by one whenever    *)
(* the table may have changed.  A target waits from its publication until  *)
(* the version then current is decided; no version is decided before it    *)
(* exists.  A withdrawal takes away at most one entry, and none when its   *)
(* owner's entry is gone: the version moves all the same.                  *)
(***************************************************************************)
EXTENDS Integers

CONSTANTS
  Env,      \* environments
  Host,     \* host names
  Owner,    \* who publishes
  Upstream  \* where traffic goes

VARIABLES
  table,    \* environment -> host -> target
  version,  \* environment -> version of its table
  waiting,  \* environment -> owners whose publication is undecided
  decided   \* environment -> the last version that was decided

vars == <<table, version, waiting, decided>>

Target == [owner : Owner, upstream : Upstream]

NoTable == [h \in {} |-> h]

Init ==
  /\ table = [e \in Env |-> NoTable]
  /\ version = [e \in Env |-> 0]
  /\ waiting = [e \in Env |-> {}]
  /\ decided = [e \in Env |-> 0]

Changed(e) == version' = [version EXCEPT ![e] = @ + 1]

\* A host has one target: publishing there again replaces it.
Publish(e, h, t) ==
  /\ Changed(e)
  /\ waiting' = [waiting EXCEPT ![e] = @ \cup {t.owner}]
  /\ table' = [table EXCEPT ![e] =
       [x \in DOMAIN table[e] \cup {h} |-> IF x = h THEN t ELSE table[e][x]]]
  /\ UNCHANGED decided

\* The owner stops waiting, and the hosts hs (one or none) have no entry any more.
Withdraw(e, hs, o) ==
  /\ Changed(e)
  /\ waiting' = [waiting EXCEPT ![e] = @ \ {o}]
  /\ table' = [table EXCEPT ![e] = [x \in DOMAIN table[e] \ hs |-> table[e][x]]]
  /\ UNCHANGED decided

\* The owner is stopped: its entry stays where it is.
GiveUp(e, o) ==
  /\ waiting' = [waiting EXCEPT ![e] = @ \ {o}]
  /\ UNCHANGED <<version, decided, table>>

Decide(e) ==
  /\ waiting' = [waiting EXCEPT ![e] = {}]
  /\ decided' = [decided EXCEPT ![e] = version[e]]
  /\ UNCHANGED <<version, table>>

Forget ==
  /\ table' = [e \in Env |-> NoTable]
  /\ version' = [e \in Env |-> 0]
  /\ waiting' = [e \in Env |-> {}]
  /\ decided' = [e \in Env |-> 0]

Next ==
  \/ \E e \in Env, h \in Host, t \in Target : Publish(e, h, t)
  \/ \E e \in Env, hs \in {{}} \cup {{h} : h \in Host}, o \in Owner : Withdraw(e, hs, o)
  \/ \E e \in Env, o \in Owner : GiveUp(e, o)
  \/ \E e \in Env : Decide(e)
  \/ Forget

Spec == Init /\ [][Next]_vars

=============================================================================
