--------------------------- MODULE MCChainWriters ---------------------------
EXTENDS ChainWriters
CONSTANTS scorer, rescorer, registrar, researcher, validator, run1, agent1, h1, h2

(* A pipeline scores two agents, another one with the same run id scores   *)
(* one again, and a registrar revokes an agent and registers it anew.      *)
Writes == [w \in {scorer, rescorer, registrar} |->
  CASE w = scorer -> <<ScoreWrite(researcher, run1, 1), ScoreWrite(validator, run1, 2)>>
    [] w = rescorer -> <<ScoreWrite(researcher, run1, 3)>>
    [] w = registrar -> <<RevokeWrite(agent1), RegisterWrite(agent1, h2)>>]
=============================================================================
