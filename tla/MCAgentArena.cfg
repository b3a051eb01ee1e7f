CONSTANTS
  AgentIds <- MCAgentIds
  None = None
  Signers = {s1, s2}
  Challenges = {c1, c2}
  MaxContestants = 2
  Balances = {7}
  Completions = {"complete", "invalid"}
  MaxTime = 1
SPECIFICATION Spec
INVARIANTS TypeOK CountersMatchRuns SettlingMeansAllIn WinnerIsBest NeverStranded
PROPERTIES SettlementIsFinal ImplementsContest
CHECK_DEADLOCK FALSE
SYMMETRY MCSymmetry
