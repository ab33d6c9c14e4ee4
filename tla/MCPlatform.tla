----------------------------- MODULE MCPlatform -----------------------------
(***************************************************************************)
(* One environment with its runtime agents and its gateways.               *)
(***************************************************************************)
EXTENDS Platform

CONSTANTS dev, h1

MCAgentEnv   == [a \in Agent |-> dev]
MCGatewayEnv == [g \in Gateway |-> dev]
MCAnyForm    == {<<h1, TRUE>>, <<NoHost, FALSE>>}

=============================================================================
