--------------------------- MODULE MCAgentRunner ---------------------------
(* Model checking of AgentRunner: two candidate models of different shapes. *)
EXTENDS AgentRunner

CONSTANTS primary, backup    \* models

MCCandidates == <<primary, backup>>
MCShape == [m \in {primary, backup} |->
              IF m = primary THEN "anthropic" ELSE "openai"]
=============================================================================
