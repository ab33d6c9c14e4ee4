----------------------------- MODULE StateFile -----------------------------
(***************************************************************************)
(* What saving promises: a file that holds nothing or a whole state.  A    *)
(* save takes the state of the store and later puts it in the file in one  *)
(* step, or drops it; a process that starts has what the file holds, or    *)
(* starts blank beside it if it cannot be loaded.  While saves clash       *)
(* nothing is promised of the file.                                        *)
(***************************************************************************)
CONSTANTS
  State,  \* what the store may hold
  Blank,  \* the states of a store nobody has written to
  None    \* nothing: no file, no save under way

VARIABLES
  store,  \* what the store holds
  up,     \* the process runs
  taken,  \* what the save under way will put in the file
  stored, \* what the file holds
  clash   \* two saves have been under way together

vars == <<store, up, taken, stored, clash>>

Init ==
  /\ store \in Blank
  /\ up = TRUE
  /\ taken = None /\ stored = None
  /\ clash = FALSE

Change ==
  /\ up
  /\ store' \in State
  /\ UNCHANGED <<up, taken, stored, clash>>

Take ==
  /\ up /\ ~clash /\ taken = None
  /\ taken' = store
  /\ UNCHANGED <<store, up, stored, clash>>

Put ==
  /\ taken # None
  /\ stored' = taken
  /\ taken' = None
  /\ UNCHANGED <<store, up, clash>>

Drop ==
  /\ taken' = None
  /\ UNCHANGED <<store, up, stored, clash>>

Erase ==
  /\ up
  /\ stored' = None
  /\ UNCHANGED <<store, up, taken, clash>>

\* A second save begins before the first is over.
Collide ==
  /\ up
  /\ clash' = TRUE
  /\ taken' = None
  /\ UNCHANGED <<store, up, stored>>

Muddle ==
  /\ up /\ clash
  /\ stored' \in State \cup {None}
  /\ UNCHANGED <<store, up, taken, clash>>

Stop ==
  /\ up
  /\ up' = FALSE
  /\ taken' = None
  /\ IF clash THEN stored' \in State \cup {None} ELSE UNCHANGED stored
  /\ UNCHANGED <<store, clash>>

Start ==
  /\ ~up
  /\ up' = TRUE
  /\ (stored # None /\ store' = stored) \/ store' \in Blank
  /\ clash' \in {clash, FALSE}
  /\ UNCHANGED <<taken, stored>>

Next == Change \/ Take \/ Put \/ Drop \/ Erase \/ Collide \/ Muddle \/ Stop \/ Start

Spec == Init /\ [][Next]_vars

=============================================================================
