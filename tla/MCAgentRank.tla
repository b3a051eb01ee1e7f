---------------------------- MODULE MCAgentRank -----------------------------
(* Two signers, the agent ids 0, 1 and 2, and the scores around MAX_SCORE.  *)
EXTENDS AgentRank

MCAgentIds == {0, 1, 2}
MCWinCounts == {1}
MCScores == {0, MaxScore, MaxScore + 1}
=============================================================================
