----------------------------- MODULE MCAgentStore -----------------------------
(* The good texts are only ever compared for equality. *)
EXTENDS AgentStore, TLC

Texts == Permutations(Good)

===============================================================================
