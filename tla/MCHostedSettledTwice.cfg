CONSTANTS
  AgentIds <- MCAgentIds
  Hosted <- MCHosted
  Entrants <- MCEntrants
  Qualities <- MCQualities
  Challenges = {c1, c2, h1}
  c1 = c1
  c2 = c2
  h1 = h1
  None = None
  Signers = {s1}
  Authority = s1
  Scores = {}
  WinCounts = {}
  Processes = {p1, p2}
SPECIFICATION RankingsSpec
INVARIANT EachWinOnce
CHECK_DEADLOCK FALSE
SYMMETRY MCSymmetry
