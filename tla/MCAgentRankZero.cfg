CONSTANTS
  AgentIds <- MCAgentIds
  Scores <- MCScores
  WinCounts <- MCWinCounts
  None = None
  Signers = {s1, s2}
SPECIFICATION RankSpec
PROPERTY OwnerSetOnFirstCreation
