-------------------------- MODULE MCAgentRegistry --------------------------
(***************************************************************************)
(* Four processes: two runtime agents of one role, a gateway, and a        *)
(* process whose agentKey text is that of the first although one of its    *)
(* parts differs ("i:docker" with mode "x", or "i" with mode "docker:x").  *)
(***************************************************************************)
EXTENDS AgentRegistry

CONSTANTS p1, p2, gw, twin, k1, k2, kg, api, gateway

MCIndexKey  == [p \in {p1, p2, gw, twin} |->
                  CASE p = p2 -> k2 [] p = gw -> kg [] OTHER -> k1]
MCNumberKey == [p \in {p1, p2, gw, twin} |-> IF p = gw THEN gateway ELSE api]

=============================================================================
