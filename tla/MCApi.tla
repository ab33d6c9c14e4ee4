------------------------------- MODULE MCApi -------------------------------
(* Two connections, two agents of one environment. *)
EXTENDS Api, TLC

CONSTANTS dev

MCAgentEnv == [a \in Agent |-> dev]
MCForm     == {<<NoHost, FALSE>>}
Symmetric  == Permutations(Client) \cup Permutations(Agent)

=============================================================================
