------------------------------ MODULE MCStore ------------------------------
(* Small instances of Store for TLC. *)
EXTENDS Store, TLC

MCSymmetry == Permutations(Agent) \cup Permutations(Env) \cup Permutations(Host)

=============================================================================
