--------------------------- MODULE MCAgentRegistry --------------------------
(* Sessions that all start under the default nick of their directory.      *)
EXTENDS AgentRegistry

CONSTANTS s1, s2, n1

MCMaxConns == [a \in Sessions |-> IF a = s1 THEN 2 ELSE 1]
MCNick == [a \in Sessions |-> n1]
=============================================================================
