----------------------------- MODULE MCRecovery -----------------------------
(* One environment with one agent and one gateway, around restarts. *)
EXTENDS Recovery

CONSTANTS dev, h1

MCAgentEnv   == [a \in Agent |-> dev]
MCGatewayEnv == [g \in Gateway |-> dev]
MCRouted     == {<<h1, TRUE>>}

=============================================================================
